---- MODULE Spec2Model ----
(***************************************************************************)
(* Retrieval-augmented-generation backend: the retrieval component, the    *)
(* reranker component, the Retrieval.run pipeline, the knowledge router    *)
(* with its endpoint, the failure handling of the stages, the              *)
(* transformation selector, the storing of documents, the PDF and image    *)
(* ingestion, and the endpoints that keep the chat history and file map.   *)
(***************************************************************************)
EXTENDS Integers, Sequences, FiniteSets, TLC

(* ---------------------------- bounds ---------------------------------- *)
MaxDocs == 5        \* documents that may sit in a collection
MaxQueries == 2     \* longest list of queries given to one call
MaxCalls == 2       \* run calls made on one component instance
MaxExchanges == 3   \* exchanges the chat history may hold
MaxLog == 1         \* entries of the error log while stages are called
MaxStored == 3      \* documents stored into the collections
MaxPages == 2       \* pages of a PDF
MaxImages == 2      \* images on a page of a PDF
MaxWorkers == 2     \* requests the server handles at the same time

(* ------------------------ program constants --------------------------- *)
DefaultRetrievalTopK == 10
DefaultRerankTopK == 3

(* Python's None, and a value that is not None *)
None == [kind |-> "None"]
Some(v) == [kind |-> "val", val |-> v]

(* ---------------------------- documents ------------------------------- *)
Docs == 1..MaxDocs
Names == <<"doc1.pdf", "doc2.pdf">>
Userids == <<"u1", "u2">>
\* metadata["source"] and metadata["userid"] of a stored document: the
\* combinations of two file names and two owners, in turn
Source(d) == Names[(((d - 1) \div 2) % 2) + 1]
Userid(d) == Userids[((d - 1) % 2) + 1]

QueryTexts == {"qa", "qb"}

\* similarity of a document to the embedding of the query text (the order the
\* collection answers in), and relevance score of the cross-encoder; both are
\* injective per query, and they order the documents differently
Sim(q, d) == IF q = "qa" THEN d ELSE MaxDocs + 2 - d
Rel(q, d) == IF q = "qa" THEN ((d % 2) * (MaxDocs + 1)) + d ELSE d

Range(s) == {s[i] : i \in 1..Len(s)}
Min(a, b) == IF a < b THEN a ELSE b
Take(s, k) == SubSeq(s, 1, Min(k, Len(s)))

RECURSIVE SortDescBy(_, _)
SortDescBy(S, key) ==
    IF S = {} THEN <<>>
    ELSE LET m == CHOOSE x \in S : \A y \in S : key[y] <= key[x]
         IN <<m>> \o SortDescBy(S \ {m}, key)

(* ------------------------ RetrievalComponent -------------------------- *)
\* mutant: the two conditions joined by AND
FilterMatches_And(d, name, userid) ==
    Source(d) = name /\ Userid(d) = userid

\* filters = {'operator': 'OR', 'conditions': [source == name, userid == userid]}
FilterMatches(d, name, userid) == Source(d) = name \/ Userid(d) = userid

\* retriever.run(query, top_k, filters): at most top_k documents of the
\* collection that pass the filter, by descending similarity
ChromaQuery(coll, query, top_k, name, userid) ==
    Take(SortDescBy({d \in coll : FilterMatches(d, name, userid)},
                    [d \in Docs |-> Sim(query, d)]), top_k)

NewRetrievalComponent(top_k) ==
    [question_context_pairs |-> <<>>, documents |-> <<>>, top_k |-> top_k]

\* mutant: a string is not wrapped, the loop runs over its characters
NormalizeQueries_Chars(queries) ==
    IF queries.kind = "str" THEN <<"q", "a">> ELSE queries.items

\* if type(queries) == str: queries = [queries]
NormalizeQueries(queries) ==
    IF queries.kind = "str" THEN <<queries.text>> ELSE queries.items

\* if top_k != None: self.top_k = top_k
SetTopK(inst, top_k) ==
    IF top_k # None THEN [inst EXCEPT !.top_k = top_k.val] ELSE inst

\* one iteration of the loop over queries
RetrieveOne(inst, coll, query, name, userid) ==
    LET result == ChromaQuery(coll, query, inst.top_k, name, userid)
    IN [inst EXCEPT
          !.documents = @ \o result,
          !.question_context_pairs =
              Append(@, [question |-> query, documents |-> result])]

\* the loop over queries; the gateway query number failAt raises (0: none)
RECURSIVE RetrievalLoop(_, _, _, _, _, _, _)
RetrievalLoop(st, coll, queries, i, name, userid, failAt) ==
    IF i > Len(queries) THEN st
    ELSE IF i = failAt
         THEN [st EXCEPT !.issued = Append(@, queries[i]), !.raised = TRUE]
         ELSE RetrievalLoop(
                [st EXCEPT
                   !.inst = RetrieveOne(@, coll, queries[i], name, userid),
                   !.issued = Append(@, queries[i])],
                coll, queries, i + 1, name, userid, failAt)

\* mutant: the except clause returns what was gathered so far
RetrievalComponentRun_PartialOnError(inst, c, queries, name, userid, top_k, failAt) ==
    LET st == RetrievalLoop(
                [inst |-> SetTopK(inst, top_k), issued |-> <<>>,
                 raised |-> FALSE],
                c, NormalizeQueries(queries), 1, name, userid, failAt)
    IN [inst |-> st.inst,
        issued |-> st.issued,
        raised |-> FALSE,
        logged |-> st.raised,
        ret |-> Some([question_context_pairs |->
                          st.inst.question_context_pairs,
                      documents |-> st.inst.documents])]

\* mutant: the lists of the instance are emptied when a call starts
RetrievalComponentRun_ResetFirst(inst, c, queries, name, userid, top_k, failAt) ==
    LET st == RetrievalLoop(
                [inst |-> SetTopK([inst EXCEPT
                                     !.documents = <<>>,
                                     !.question_context_pairs = <<>>],
                                  top_k),
                 issued |-> <<>>, raised |-> FALSE],
                c, NormalizeQueries(queries), 1, name, userid, failAt)
    IN [inst |-> st.inst,
        issued |-> st.issued,
        raised |-> st.raised,
        logged |-> st.raised,
        ret |-> IF st.raised THEN None
                ELSE Some([question_context_pairs |->
                               st.inst.question_context_pairs,
                           documents |-> st.inst.documents])]

\* mutant: a top_k override holds for the call it is passed to only
RetrievalComponentRun_TopKForCall(inst, c, queries, name, userid, top_k, failAt) ==
    LET st == RetrievalLoop(
                [inst |-> SetTopK(inst, top_k), issued |-> <<>>,
                 raised |-> FALSE],
                c, NormalizeQueries(queries), 1, name, userid, failAt)
    IN [inst |-> [st.inst EXCEPT !.top_k = inst.top_k],
        issued |-> st.issued,
        raised |-> st.raised,
        logged |-> st.raised,
        ret |-> IF st.raised THEN None
                ELSE Some([question_context_pairs |->
                               st.inst.question_context_pairs,
                           documents |-> st.inst.documents])]

\* RetrievalComponent.run: the instance after the call, the gateway queries
\* issued, whether the call raised (after logging), and the value returned
RetrievalComponentRun(inst, c, queries, name, userid, top_k, failAt) ==
    LET st == RetrievalLoop(
                [inst |-> SetTopK(inst, top_k), issued |-> <<>>,
                 raised |-> FALSE],
                c, NormalizeQueries(queries), 1, name, userid, failAt)
    IN [inst |-> st.inst,
        issued |-> st.issued,
        raised |-> st.raised,
        logged |-> st.raised,
        ret |-> IF st.raised THEN None
                ELSE Some([question_context_pairs |->
                               st.inst.question_context_pairs,
                           documents |-> st.inst.documents])]

(* ------------------------- ReRankerComponent -------------------------- *)
\* ranker.run(query, documents, top_k): the documents by descending
\* relevance score, truncated to top_k, scores dropped
SimilarityRanker(query, documents, top_k) ==
    Take(SortDescBy(Range(documents), [d \in Docs |-> Rel(query, d)]), top_k)

NewReRankerComponent(top_k) == [documents |-> <<>>, top_k |-> top_k]

\* mutant: top_k is not handed to the ranker, which then uses its own
RerankOne_RankerTopK(inst, pair) ==
    [inst EXCEPT
       !.documents =
           @ \o SimilarityRanker(pair.question, pair.documents, 10)]

\* mutant: the block of a pair is put in front of the earlier blocks
RerankOne_Prepend(inst, pair) ==
    [inst EXCEPT
       !.documents =
           SimilarityRanker(pair.question, pair.documents, inst.top_k) \o @]

\* one iteration of the loop over pairs
RerankOne(inst, pair) ==
    [inst EXCEPT
       !.documents =
           @ \o SimilarityRanker(pair.question, pair.documents, inst.top_k)]

\* the loop over pairs; the ranker call number failAt raises (0: none)
RECURSIVE RerankLoop(_, _, _, _)
RerankLoop(st, pairs, i, failAt) ==
    IF i > Len(pairs) THEN st
    ELSE IF i = failAt
         THEN [st EXCEPT !.issued = Append(@, pairs[i]), !.raised = TRUE]
         ELSE RerankLoop(
                [st EXCEPT !.inst = RerankOne(@, pairs[i]),
                           !.issued = Append(@, pairs[i])],
                pairs, i + 1, failAt)

\* mutant: a pair without documents makes the call raise
ReRankerComponentRun_RaiseOnEmpty(inst, pairs, top_k, failAt) ==
    LET st == RerankLoop(
                [inst |-> SetTopK(inst, top_k), issued |-> <<>>,
                 raised |-> FALSE],
                pairs, 1, failAt)
        empty == \E i \in 1..Len(pairs) : pairs[i].documents = <<>>
    IN [inst |-> st.inst,
        issued |-> st.issued,
        raised |-> st.raised \/ empty,
        logged |-> st.raised \/ empty,
        ret |-> IF st.raised \/ empty THEN None
                ELSE Some([documents |-> st.inst.documents])]

\* ReRankerComponent.run
ReRankerComponentRun(inst, pairs, top_k, failAt) ==
    LET st == RerankLoop(
                [inst |-> SetTopK(inst, top_k), issued |-> <<>>,
                 raised |-> FALSE],
                pairs, 1, failAt)
    IN [inst |-> st.inst,
        issued |-> st.issued,
        raised |-> st.raised,
        logged |-> st.raised,
        ret |-> IF st.raised THEN None
                ELSE Some([documents |-> st.inst.documents])]

(* ------------------------------ state --------------------------------- *)
VARIABLES
    store,      \* per category, the documents held by its collection
    caller,     \* file name and user id the calls are made for
    rc,         \* a RetrievalComponent instance
    rcCalls,    \* run calls made on rc since it was constructed
    rcOut,      \* arguments and outcome of the last run call on rc
    rr,         \* a ReRankerComponent instance
    rrCalls,    \* run calls made on rr since it was constructed
    rrOut,      \* arguments and outcome of the last run call on rr
    pc,         \* Retrieval.run: the stage the pipeline is at
    pArgs,      \* Retrieval.run: query and category of the call
    prompt,     \* Retrieval.run: output of the prompt builder
    replies,    \* Retrieval.run: replies of the generator
    pOut,       \* Retrieval.run: the value returned
    stageLog,   \* Retrieval.run: the components that have run, in order
    fault,      \* Retrieval.run: what made the call raise
    errLog,     \* who wrote to the error log during the current request
    history,    \* app.history: the turns as messages
    chat_history,   \* app.chat_history: the turns as role/content records
    krOut,      \* outcome of the last /knowledgeRouter request
    stOut,      \* outcome of the last call of a stage
    qtOut,      \* outcome of the last /queryTransformationRouter request
    chroma,     \* per category, the entries of the collection stored into
    idsIssued,  \* number of identifiers handed out so far
    sdOut,      \* arguments and outcome of the last /StoreData request
    puOut,      \* outcome of the last call made on a PdfUploading
    file_map,   \* app.file_map: the category of the files, by name
    disk_file_map,      \* file_map.json
    disk_chat_history,  \* chat_history.json
    reported,   \* the file names and categories ingestions have returned
    epOut,      \* outcome of the last request to an ingestion, retrieval
                \* or CSV endpoint
    runs,       \* per worker, the locals of the Retrieval.run call it is in
    instances,  \* the components those calls have constructed, by identity
    handlers,   \* per worker, the position of the endpoint handler it runs
    uploaded_csvs,  \* the files in the uploaded-csvs folder
    csv_agent   \* app.csv_agent: the CSV agent built when the module loads

vars == <<store, caller, rc, rcCalls, rcOut, rr, rrCalls, rrOut,
          pc, pArgs, prompt, replies, pOut, stageLog, fault, errLog,
          history, chat_history, krOut, stOut, qtOut,
          chroma, idsIssued, sdOut, puOut, file_map, disk_file_map,
          disk_chat_history, reported, epOut,
          runs, instances, handlers, uploaded_csvs, csv_agent>>
storeVars == <<chroma, idsIssued, sdOut>>
fileVars == <<file_map, disk_file_map, disk_chat_history, reported, epOut>>
\* the requests in flight on the workers of the server
concVars == <<runs, instances, handlers>>
csvVars == <<uploaded_csvs, csv_agent>>
\* the state of the storing, ingestion and transformation endpoints, of the
\* workers and of the CSV agent
extVars == <<qtOut, storeVars, puOut, fileVars, concVars, csvVars>>
routerVars == <<history, chat_history, krOut>>
retrieverVars == <<rc, rcCalls, rcOut>>
rankerVars == <<rr, rrCalls, rrOut>>
pipelineVars == <<pc, pArgs, prompt, replies, pOut, stageLog, fault, errLog>>

\* db_map: the categories that have a collection
Categories ==
    {"Education", "Sports", "Politics", "Environment", "Others", "Images"}
\* the collection the directly called components are bound to
coll == store["Education"]

NoCall == [called |-> FALSE]

\* the threads of the server's pool, each handling one request at a time
Workers == 1..MaxWorkers
\* a worker that is in no Retrieval.run call
IdleRun ==
    [pc |-> "idle", query |-> None, category |-> "", name |-> "",
     userid |-> "", retriever |-> 0, ranker |-> 0, i |-> 0,
     pairs |-> <<>>, documents |-> <<>>, ret |-> None, overlapped |-> FALSE]
\* a worker that is in no endpoint handler
IdleHandler == [pc |-> "idle", user |-> "", assistant |-> <<>>]

\* CSVHandling().csv_agent(): an agent over the files of the folder, or None
\* when the folder is empty
CsvAgent(files) == IF files = {} THEN None ELSE Some([files |-> files])

(* ------------------------------ inputs -------------------------------- *)
\* collections that are empty, full, or lack the first or the last document
InitColls == {{}, Docs, Docs \ {1}, Docs \ {MaxDocs}}
Callers == {[name |-> Names[i], userid |-> Userids[j]] : i, j \in 1..2}

\* lists of distinct query texts, no longer than MaxQueries
QueryLists ==
    {s \in UNION {[1..n -> QueryTexts] : n \in 0..MaxQueries} :
        \A i, j \in 1..Len(s) : i # j => s[i] # s[j]}
\* the queries argument: one string, or a list of strings
QueryInputs ==
    {[kind |-> "str", text |-> "qa"]}
        \cup {[kind |-> "list", items |-> s] : s \in QueryLists}
TopKOverrides == {None, Some(2)}

\* the pairs argument of the reranker: what retrieval with the default top_k
\* yields for a list of queries
PairsFor(queries) ==
    [i \in 1..Len(queries) |->
        [question |-> queries[i],
         documents |-> ChromaQuery(coll, queries[i], DefaultRetrievalTopK,
                                   caller.name, caller.userid)]]

(* ------------------------------ actions ------------------------------- *)
InitRest ==
    /\ pc = "idle"
    /\ pArgs = None
    /\ prompt = None
    /\ replies = <<>>
    /\ pOut = None
    /\ stageLog = <<>>
    /\ fault = "none"
    /\ errLog = <<>>
    /\ history = <<>>
    /\ chat_history = <<>>
    /\ krOut = NoCall
    /\ stOut = NoCall
    /\ qtOut = NoCall
    /\ chroma = [c \in Categories |-> {}]
    /\ idsIssued = 0
    /\ sdOut = NoCall
    /\ puOut = NoCall
    /\ disk_chat_history = <<>>
    /\ reported = {}
    /\ epOut = NoCall
    /\ runs = [w \in Workers |-> IdleRun]
    /\ instances = [rc |-> <<>>, rr |-> <<>>]
    /\ handlers = [w \in Workers |-> IdleHandler]
    /\ rc = NewRetrievalComponent(DefaultRetrievalTopK)
    /\ rcCalls = 0
    /\ rcOut = NoCall
    /\ rr = NewReRankerComponent(DefaultRerankTopK)
    /\ rrCalls = 0
    /\ rrOut = NoCall

\* the module was loaded with an empty uploaded-csvs folder
InitNoCsv == uploaded_csvs = {} /\ csv_agent = CsvAgent({})

\* the collections hold what was ingested before, the requests are made for
\* some file and user
InitShared ==
    /\ store \in {[c \in Categories |-> IF c = "Education" THEN S ELSE {}] :
                    S \in InitColls}
    /\ caller \in Callers
    /\ file_map = <<>> /\ disk_file_map = <<>>
    /\ InitNoCsv
    /\ InitRest

\* the file map read from file_map.json holds nothing or a PDF ingested
\* before
InitFiles ==
    /\ store = [c \in Categories |-> {}]
    /\ caller = [name |-> Names[1], userid |-> Userids[1]]
    /\ file_map \in {<<>>, [k \in {<<"doc1">>} |-> "Education"]}
    /\ disk_file_map = file_map
    /\ InitNoCsv
    /\ InitRest

\* nothing ingested yet
InitEmpty ==
    /\ store = [c \in Categories |-> {}]
    /\ caller = [name |-> Names[1], userid |-> Userids[1]]
    /\ file_map = <<>> /\ disk_file_map = <<>>
    /\ InitNoCsv
    /\ InitRest

\* the files the uploaded-csvs folder may hold when the module is loaded
StartupCsvs == {<<"old", "csv">>, <<"table", "csv">>}

\* the module was loaded with some files in the uploaded-csvs folder,
\* possibly none, and built its agent over them
InitCsv ==
    /\ store = [c \in Categories |-> {}]
    /\ caller = [name |-> Names[1], userid |-> Userids[1]]
    /\ file_map = <<>> /\ disk_file_map = <<>>
    /\ uploaded_csvs \in SUBSET StartupCsvs
    /\ csv_agent = CsvAgent(uploaded_csvs)
    /\ InitRest

\* RetrievalComponent(retriever): a fresh instance replaces rc
RetrieverConstruct ==
    /\ rcCalls > 0
    /\ rc' = NewRetrievalComponent(DefaultRetrievalTopK)
    /\ rcCalls' = 0
    /\ rcOut' = NoCall
    /\ UNCHANGED <<routerVars, stOut, store, caller, extVars, rankerVars, pipelineVars>>

\* rc.run(queries, name, userid, top_k)
RetrieverRun ==
    /\ rcCalls < MaxCalls
    /\ \E queries \in QueryInputs, top_k \in TopKOverrides :
         \E failAt \in 0..Len(NormalizeQueries(queries)) :
            LET r == RetrievalComponentRun(rc, coll, queries, caller.name,
                                           caller.userid, top_k, failAt)
            IN /\ rc' = r.inst
               /\ rcCalls' = rcCalls + 1
               /\ rcOut' = [called |-> TRUE, queries |-> queries,
                            top_k |-> top_k, failAt |-> failAt,
                            issued |-> r.issued, raised |-> r.raised,
                            logged |-> r.logged, ret |-> r.ret]
    /\ UNCHANGED <<routerVars, stOut, store, caller, extVars, rankerVars, pipelineVars>>

\* ReRankerComponent(): a fresh instance replaces rr
RankerConstruct ==
    /\ rrCalls > 0
    /\ rr' = NewReRankerComponent(DefaultRerankTopK)
    /\ rrCalls' = 0
    /\ rrOut' = NoCall
    /\ UNCHANGED <<routerVars, stOut, store, caller, extVars, retrieverVars, pipelineVars>>

\* rr.run(question_context_pairs, top_k)
RankerRun ==
    /\ rrCalls < MaxCalls
    /\ \E queries \in QueryLists, top_k \in TopKOverrides :
         \E failAt \in 0..Len(queries) :
            LET pairs == PairsFor(queries)
                r == ReRankerComponentRun(rr, pairs, top_k, failAt)
            IN /\ rr' = r.inst
               /\ rrCalls' = rrCalls + 1
               /\ rrOut' = [called |-> TRUE, pairs |-> pairs,
                            top_k |-> top_k, failAt |-> failAt,
                            issued |-> r.issued, raised |-> r.raised,
                            logged |-> r.logged, ret |-> r.ret]
    /\ UNCHANGED <<routerVars, stOut, store, caller, extVars, retrieverVars, pipelineVars>>

(* ---------------------------- Retrieval.run --------------------------- *)
\* mutant: the prompt is not connected to the generator
NextStage_NoGenerator(stage) ==
    CASE stage = "retriever" -> "ranker"
      [] stage = "ranker" -> "prompt"
      [] stage = "prompt" -> "returned"
      [] stage = "generator" -> "returned"

\* pipeline.connect: retriever -> ranker -> prompt -> generator
NextStage(stage) ==
    CASE stage = "retriever" -> "ranker"
      [] stage = "ranker" -> "prompt"
      [] stage = "prompt" -> "generator"
      [] stage = "generator" -> "returned"

RequestCategories == {"Education", "Sports", "Unknown"}
\* the generator's reply to a prompt
Reply(p) == [answer_to |-> p]
Running == pc \in {"retriever", "ranker", "prompt", "generator"}

\* Retrieval.run(query, category, name, userid) is called: the collection of
\* the category is looked up, the two components are constructed and the
\* pipeline is built and started
RetrievalRunStart ==
    /\ ~Running
    /\ \E query \in QueryInputs, category \in RequestCategories :
         /\ pArgs' = Some([query |-> query, category |-> category])
         /\ IF category \in Categories
            THEN /\ pc' = "retriever"
                 /\ fault' = "none"
            ELSE /\ pc' = "raised"
                 /\ fault' = "KeyError"
    /\ rc' = NewRetrievalComponent(DefaultRetrievalTopK)
    /\ rr' = NewReRankerComponent(DefaultRerankTopK)
    /\ rcCalls' = 0 /\ rrCalls' = 0
    /\ rcOut' = NoCall /\ rrOut' = NoCall
    /\ prompt' = None /\ replies' = <<>> /\ pOut' = None
    /\ stageLog' = <<>> /\ errLog' = <<>>
    /\ UNCHANGED <<store, caller, extVars, routerVars, stOut>>

\* the pipeline runs the retriever on {queries, name, userid}
RetrieverStage ==
    /\ pc = "retriever"
    /\ \E failAt \in 0..Len(NormalizeQueries(pArgs.val.query)) :
         LET r == RetrievalComponentRun(rc, store[pArgs.val.category],
                      pArgs.val.query, caller.name, caller.userid, None,
                      failAt)
         IN /\ rc' = r.inst
            /\ rcCalls' = rcCalls + 1
            /\ rcOut' = [called |-> TRUE, queries |-> pArgs.val.query,
                         top_k |-> None, failAt |-> failAt,
                         issued |-> r.issued, raised |-> r.raised,
                         logged |-> r.logged, ret |-> r.ret]
            /\ stageLog' = Append(stageLog, "retriever")
            /\ IF r.raised
               THEN /\ pc' = "raised"
                    /\ fault' = "gateway"
                    /\ errLog' = errLog \o
                           (IF r.logged THEN <<"RetrievalComponent.run">>
                            ELSE <<>>) \o <<"Retrieval.run">>
               ELSE /\ pc' = NextStage("retriever")
                    /\ UNCHANGED <<fault, errLog>>
    /\ UNCHANGED <<routerVars, stOut, store, caller, extVars, rankerVars, pArgs, prompt, replies, pOut>>

\* the pipeline runs the ranker on the retriever's question_context_pairs
RankerStage ==
    /\ pc = "ranker"
    /\ LET pairs == rcOut.ret.val.question_context_pairs
       IN \E failAt \in 0..Len(pairs) :
            LET r == ReRankerComponentRun(rr, pairs, None, failAt)
            IN /\ rr' = r.inst
               /\ rrCalls' = rrCalls + 1
               /\ rrOut' = [called |-> TRUE, pairs |-> pairs,
                            top_k |-> None, failAt |-> failAt,
                            issued |-> r.issued, raised |-> r.raised,
                            logged |-> r.logged, ret |-> r.ret]
               /\ stageLog' = Append(stageLog, "ranker")
               /\ IF r.raised
                  THEN /\ pc' = "raised"
                       /\ fault' = "ranker"
                       /\ errLog' = errLog \o
                              (IF r.logged THEN <<"ReRankerComponent.run">>
                               ELSE <<>>) \o <<"Retrieval.run">>
                  ELSE /\ pc' = NextStage("ranker")
                       /\ UNCHANGED <<fault, errLog>>
    /\ UNCHANGED <<routerVars, stOut, store, caller, extVars, retrieverVars, pArgs, prompt, replies, pOut>>

\* the pipeline runs the prompt builder on the query and the ranker's
\* documents
PromptStage ==
    /\ pc = "prompt"
    /\ prompt' = Some([query |-> pArgs.val.query,
                       documents |-> rrOut.ret.val.documents])
    /\ stageLog' = Append(stageLog, "prompt")
    /\ pc' = NextStage("prompt")
    /\ UNCHANGED <<routerVars, stOut, store, caller, extVars, retrieverVars, rankerVars, pArgs, replies,
                   pOut, fault, errLog>>

\* mutant: a failed generator call is made once more
GeneratorStage_Retry ==
    /\ pc = "generator"
    /\ stageLog' = Append(stageLog, "generator")
    /\ \E ok \in BOOLEAN :
         IF ok
         THEN /\ replies' = <<Reply(prompt.val)>>
              /\ pOut' = Some([answer |-> Reply(prompt.val),
                               ranker |-> rrOut.ret.val,
                               question_context_pairs |->
                                   rcOut.ret.val.question_context_pairs])
              /\ pc' = "returned"
              /\ UNCHANGED <<fault, errLog>>
         ELSE IF Len(stageLog) < 4
         THEN UNCHANGED <<pc, fault, errLog, replies, pOut>>
         ELSE /\ pc' = "raised"
              /\ fault' = "generator"
              /\ errLog' = Append(errLog, "Retrieval.run")
              /\ UNCHANGED <<replies, pOut>>
    /\ UNCHANGED <<routerVars, stOut, store, caller, extVars, retrieverVars, rankerVars, pArgs, prompt>>

\* the pipeline runs the generator on the prompt, and Retrieval.run returns
\* (replies[0], ranker output, question_context_pairs) or logs and raises
GeneratorStage ==
    /\ pc = "generator"
    /\ stageLog' = Append(stageLog, "generator")
    /\ \E ok \in BOOLEAN :
         IF ok
         THEN /\ replies' = <<Reply(prompt.val)>>
              /\ pOut' = Some([answer |-> Reply(prompt.val),
                               ranker |-> rrOut.ret.val,
                               question_context_pairs |->
                                   rcOut.ret.val.question_context_pairs])
              /\ pc' = NextStage("generator")
              /\ UNCHANGED <<fault, errLog>>
         ELSE /\ pc' = "raised"
              /\ fault' = "generator"
              /\ errLog' = Append(errLog, "Retrieval.run")
              /\ UNCHANGED <<replies, pOut>>
    /\ UNCHANGED <<routerVars, stOut, store, caller, extVars, retrieverVars, rankerVars, pArgs, prompt>>

(* --------------------- KnowledgeRouter, /knowledgeRouter -------------- *)
Texts == {"hello", "what does doc1.pdf say"}
Fail == [type |-> "fail"]
\* what the structured-output model may answer to the routing prompt: a
\* conversational response, an internal data request whose query field is
\* the user's text or a rewording of it, or an error
RouterAnswers(text) ==
    {[type |-> "ConversationalResponse", response |-> r] :
        r \in {"reply", "which file do you mean?"}}
        \cup {[type |-> "InternalDataRequests", filename |-> "doc1.pdf",
               query |-> q, filetype |-> "pdf", action |-> "retrieve"] :
              q \in {text, "reworded"}}
        \cup {Fail}
\* mutant: the core meaning is extracted from the user's text
KnowledgeRouterRun_CoreOnText(query, hist, first, second) ==
    LET routerCall == [schema |-> "KnowledgeRouterResponse", query |-> query]
    IN IF first = Fail
       THEN [raised |-> TRUE, logged |-> TRUE, ret |-> None,
             calls |-> <<routerCall>>]
       ELSE IF first.type = "InternalDataRequests"
       THEN LET coreCall == [schema |-> "CoreMeaningQuery", query |-> query]
                ans == second[query]
            IN IF ans = Fail
               THEN [raised |-> TRUE, logged |-> TRUE, ret |-> None,
                     calls |-> <<routerCall, coreCall>>]
               ELSE [raised |-> FALSE, logged |-> FALSE,
                     ret |-> Some([response |-> first,
                                   core_query |-> Some(ans.core_meaning)]),
                     calls |-> <<routerCall, coreCall>>]
       ELSE [raised |-> FALSE, logged |-> FALSE,
             ret |-> Some([response |-> first, core_query |-> None]),
             calls |-> <<routerCall>>]

\* mutant: a failed model call is answered by a default conversational reply
KnowledgeRouterRun_Fallback(query, hist, first, second) ==
    LET routerCall == [schema |-> "KnowledgeRouterResponse", query |-> query]
        default == [raised |-> FALSE, logged |-> TRUE,
                    ret |-> Some([response |->
                                      [type |-> "ConversationalResponse",
                                       response |-> "reply"],
                                  core_query |-> None]),
                    calls |-> <<routerCall>>]
    IN IF first = Fail THEN default
       ELSE IF first.type = "InternalDataRequests"
       THEN LET coreCall == [schema |-> "CoreMeaningQuery",
                             query |-> first.query]
                ans == second[first.query]
            IN IF ans = Fail THEN default
               ELSE [raised |-> FALSE, logged |-> FALSE,
                     ret |-> Some([response |-> first,
                                   core_query |-> Some(ans.core_meaning)]),
                     calls |-> <<routerCall, coreCall>>]
       ELSE [raised |-> FALSE, logged |-> FALSE,
             ret |-> Some([response |-> first, core_query |-> None]),
             calls |-> <<routerCall>>]

\* KnowledgeRouter.run(query, chat_history), given the answers of the model
KnowledgeRouterRun(query, hist, first, second) ==
    LET routerCall == [schema |-> "KnowledgeRouterResponse", query |-> query]
    IN IF first = Fail
       THEN [raised |-> TRUE, logged |-> TRUE, ret |-> None,
             calls |-> <<routerCall>>]
       ELSE IF first.type = "InternalDataRequests"
       THEN LET coreCall == [schema |-> "CoreMeaningQuery",
                             query |-> first.query]
                ans == second[first.query]
            IN IF ans = Fail
               THEN [raised |-> TRUE, logged |-> TRUE, ret |-> None,
                     calls |-> <<routerCall, coreCall>>]
               ELSE [raised |-> FALSE, logged |-> FALSE,
                     ret |-> Some([response |-> first,
                                   core_query |-> Some(ans.core_meaning)]),
                     calls |-> <<routerCall, coreCall>>]
       ELSE [raised |-> FALSE, logged |-> FALSE,
             ret |-> Some([response |-> first, core_query |-> None]),
             calls |-> <<routerCall>>]

HumanMessage(content) == [message |-> "human", content |-> content]

\* mutant: no decision is taken for a conversational response
IsConversational_Never(response) == FALSE

\* "ConversationalResponse" in str(type(response))
IsConversational(response) == response.type = "ConversationalResponse"

\* POST /knowledgeRouter
KnowledgeRouterEndpoint ==
    /\ Len(chat_history) < 2 * MaxExchanges
    /\ \E text \in Texts :
        \E first \in RouterAnswers(text), coreFails \in BOOLEAN :
         \* the answer of the model to the core-meaning prompt, per query
         LET second == [q \in Texts \cup {"reworded"} |->
                           IF coreFails THEN Fail
                           ELSE [type |-> "CoreMeaningQuery",
                                 core_meaning |-> <<"core of", q>>]]
             r == KnowledgeRouterRun(text, history, first, second)
             conversational ==
                 /\ ~r.raised
                 /\ IsConversational(r.ret.val.response)
         IN /\ krOut' = [called |-> TRUE, text |-> text, first |-> first,
                         coreFails |-> coreFails, raised |-> r.raised,
                         logged |-> r.logged, ret |-> r.ret,
                         calls |-> r.calls]
            /\ history' =
                   IF conversational
                   THEN history \o <<HumanMessage(text),
                                     r.ret.val.response.response>>
                   ELSE history
            /\ chat_history' =
                   IF conversational
                   THEN chat_history \o
                          <<[role |-> "user", content |-> text],
                            [role |-> "assistant",
                             content |-> r.ret.val.response.response]>>
                   ELSE chat_history
    /\ UNCHANGED <<store, caller, extVars, retrieverVars, rankerVars, pipelineVars,
                   stOut>>

(* ------------------- failure handling of the stages -------------------- *)
\* mutant: Decomposition.run has no except clause either
HandlerOf_DecompositionBare(stage) ==
    CASE stage = "ImageHandling.process_image_pdf" -> "log_and_substitute"
      [] stage = "StepBack.run" -> "no_handler"
      [] stage = "Decomposition.run" -> "no_handler"
      [] stage = "ImageHandling.read_image_url[teams]" -> "applog_and_raise"
      [] OTHER -> "log_and_raise"

\* what the except clause around a stage's external call does
HandlerOf(stage) ==
    CASE stage = "ImageHandling.process_image_pdf" -> "log_and_substitute"
      [] stage = "StepBack.run" -> "no_handler"
      [] stage = "ImageHandling.read_image_url[teams]" -> "applog_and_raise"
      [] OTHER -> "log_and_raise"

Stages ==
    {"RetrievalComponent.run", "ReRankerComponent.run", "Retrieval.run",
     "KnowledgeRouter.run", "QueryTransformationRouter.run",
     "Decomposition.run", "MultiQuery.run", "StepBack.run",
     "PdfUploading.run", "PdfUploading.extract_images_text",
     "PdfUploading.summary", "PdfUploading.category",
     "ImageHandling.describe_image", "ImageHandling.read_image_url[teams]",
     "ImageHandling.read_image_url[image]",
     "ImageHandling.process_image_pdf",
     "VectorDBStroing.load_vectorstore"}

\* a call of a stage whose external call succeeds or raises error E
StageOutcome(stage, fails) ==
    IF ~fails
    THEN [raised |-> FALSE, logged |-> "none", ret |-> "result"]
    ELSE CASE HandlerOf(stage) = "log_and_raise" ->
                [raised |-> TRUE, logged |-> "error", ret |-> "nothing"]
           [] HandlerOf(stage) = "applog_and_raise" ->
                [raised |-> TRUE, logged |-> "app", ret |-> "nothing"]
           [] HandlerOf(stage) = "no_handler" ->
                [raised |-> TRUE, logged |-> "none", ret |-> "nothing"]
           [] HandlerOf(stage) = "log_and_substitute" ->
                [raised |-> FALSE, logged |-> "app",
                 ret |-> "(None, None, None)"]

StageCall ==
    /\ Len(errLog) <= MaxLog
    /\ \E stage \in Stages, fails \in BOOLEAN :
         LET o == StageOutcome(stage, fails)
         IN /\ stOut' = [called |-> TRUE, stage |-> stage, failed |-> fails,
                         raised |-> o.raised, logged |-> o.logged,
                         ret |-> o.ret]
            /\ errLog' = IF o.logged = "error" /\ Len(errLog) < MaxLog
                         THEN Append(errLog, stage)
                         ELSE errLog
    /\ UNCHANGED <<store, caller, extVars, retrieverVars, rankerVars, routerVars,
                   pc, pArgs, prompt, replies, pOut, stageLog, fault>>

(* -------- QueryTransformationRouter, /queryTransformationRouter -------- *)
\* the classes of app.py's namespace that have run(query)
Transformers == {"Decomposition", "MultiQuery", "StepBack"}
\* the four labels the selector's prompt offers
OfferedLabels == {"Decomposition", "MultiQuery", "CoreMeaning", "None"}
\* what the structured-output model may answer to the selector's prompt:
\* transformation and reason are strings, so any label can come back, or an
\* error
SelectorAnswers ==
    {[transformation |-> l, reason |-> r] :
        l \in OfferedLabels \cup {"StepBack", "Query Expansion"},
        r \in {"two questions", "clear as it is"}}
        \cup {Fail}

\* QueryTransformationRouter.run(query), given the answer of the model: the
\* transformers it ran (none), and the response it returns
QueryTransformationRouterRun(query, answer) ==
    IF answer = Fail
    THEN [raised |-> TRUE, logged |-> TRUE, ret |-> None, ran |-> <<>>]
    ELSE [raised |-> FALSE, logged |-> FALSE, ret |-> Some(answer),
          ran |-> <<>>]

\* the stage that is the run method of a transformer
RunOf(name) ==
    CASE name = "Decomposition" -> "Decomposition.run"
      [] name = "MultiQuery" -> "MultiQuery.run"
      [] name = "StepBack" -> "StepBack.run"

\* mutant: the transformer is run on the selector's reason
TransformedQuery_OnReason(response, text, fails) ==
    LET label == response.transformation
    IN IF label = "CoreMeaning" \/ label = "None"
       THEN [raised |-> FALSE, logged |-> "none", ran |-> <<>>, ret |-> None]
       ELSE IF label \notin Transformers
       THEN [raised |-> TRUE, logged |-> "none", ran |-> <<>>, ret |-> None]
       ELSE LET o == StageOutcome(RunOf(label), fails)
            IN [raised |-> o.raised, logged |-> o.logged,
                ran |-> <<[transformer |-> label,
                           query |-> response.reason]>>,
                ret |-> IF o.raised THEN None
                        ELSE Some([by |-> label,
                                   query |-> response.reason])]

\* eval(f"{response.transformation}()").run(text) unless the label is
\* CoreMeaning or None: the transformers run, and the transformed query
TransformedQuery(response, text, fails) ==
    LET label == response.transformation
    IN IF label = "CoreMeaning" \/ label = "None"
       THEN [raised |-> FALSE, logged |-> "none", ran |-> <<>>, ret |-> None]
       ELSE IF label \notin Transformers
       \* the label names no class with run(query): the evaluation raises
       THEN [raised |-> TRUE, logged |-> "none", ran |-> <<>>, ret |-> None]
       ELSE LET o == StageOutcome(RunOf(label), fails)
            IN [raised |-> o.raised, logged |-> o.logged,
                ran |-> <<[transformer |-> label, query |-> text]>>,
                ret |-> IF o.raised THEN None
                        ELSE Some([by |-> label, query |-> text])]

\* POST /queryTransformationRouter
QueryTransformationEndpoint ==
    /\ Len(errLog) <= MaxLog
    /\ \E text \in Texts, answer \in SelectorAnswers, fails \in BOOLEAN :
         LET r == QueryTransformationRouterRun(text, answer)
             t == IF r.raised
                  THEN [raised |-> TRUE, logged |-> "none", ran |-> <<>>,
                        ret |-> None]
                  ELSE TransformedQuery(r.ret.val, text, fails)
             entry == IF r.logged THEN <<"QueryTransformationRouter.run">>
                      ELSE IF t.logged = "error"
                      THEN <<RunOf(r.ret.val.transformation)>>
                      ELSE <<>>
         IN /\ (fails => ~r.raised /\ t.ran # <<>>)
            /\ qtOut' = [called |-> TRUE, text |-> text, answer |-> answer,
                         selectorRan |-> r.ran, response |-> r.ret,
                         ran |-> t.ran, transformerd_query |-> t.ret,
                         raised |-> r.raised \/ t.raised]
            /\ errLog' = IF Len(errLog) < MaxLog THEN errLog \o entry
                         ELSE errLog
    /\ UNCHANGED <<store, caller, retrieverVars, rankerVars, routerVars,
                   pc, pArgs, prompt, replies, pOut, stageLog, fault, stOut, concVars, csvVars,
                   storeVars, puOut, fileVars>>

(* ------------------- VectorDBStroing, /StoreData ----------------------- *)
\* documents a client may post: with source and userid, with an empty
\* source, and without a userid
PostedDocs ==
    {[page_content |-> "alpha",
      metadata |-> [source |-> "doc1.pdf", userid |-> "u1"]],
     [page_content |-> "beta",
      metadata |-> [source |-> "", userid |-> "u1"]],
     [page_content |-> "gamma", metadata |-> [source |-> "doc2.pdf"]]}
\* the documents argument: batches of at most two documents
Batches == UNION {[1..n -> PostedDocs] : n \in 0..2}
\* a position of the documents in PostedDocs
ContentKey(doc) ==
    CASE doc.page_content = "alpha" -> 1
      [] doc.page_content = "beta" -> 2
      [] OTHER -> 3

\* mutant: the identifier of a document is derived from its content
NewUuids_ByContent(documents, issued) ==
    [i \in 1..Len(documents) |-> ContentKey(documents[i])]

\* uuids = [str(uuid4()) for _ in range(len(documents))]: one identifier per
\* document, none of them issued before
NewUuids(documents, issued) == [i \in 1..Len(documents) |-> issued + i]

\* vector_db.add_documents(documents, ids): an entry with a known identifier
\* is replaced, the others are added
AddDocuments(collection, documents, ids) ==
    {e \in collection : e.id \notin Range(ids)}
        \cup {[id |-> ids[i], doc |-> documents[i]] :
                i \in 1..Len(documents)}

\* VectorDBStroing.load_vectorstore(vector_db, documents); the embedding or
\* the collection may fail, and then nothing is added
LoadVectorstore(collection, documents, issued, fails) ==
    IF fails
    THEN [raised |-> TRUE, logged |-> TRUE, collection |-> collection,
          ids |-> <<>>]
    ELSE LET uuids == NewUuids(documents, issued)
         IN [raised |-> FALSE, logged |-> FALSE,
             collection |-> AddDocuments(collection, documents, uuids),
             ids |-> uuids]

\* VectorDBStroing.run(documents, category), on the collections db
VectorDBStroingRun(db, documents, category, issued, fails) ==
    IF category \notin Categories
    THEN [raised |-> TRUE, logged |-> FALSE, fault |-> "KeyError",
          db |-> db, ids |-> <<>>, ret |-> "nothing"]
    ELSE LET l == LoadVectorstore(db[category], documents, issued, fails)
         IN [raised |-> l.raised, logged |-> l.logged,
             fault |-> IF l.raised THEN "store" ELSE "none",
             db |-> [db EXCEPT ![category] = l.collection],
             ids |-> l.ids,
             ret |-> IF l.raised THEN "nothing" ELSE "Success"]

\* the identifiers held by the collections
IdsIn(db) == {e.id : e \in UNION {db[c] : c \in Categories}}

\* POST /StoreData
StoreDataEndpoint ==
    /\ Len(errLog) <= MaxLog
    /\ \E documents \in Batches, category \in RequestCategories,
          fails \in BOOLEAN :
         LET r == VectorDBStroingRun(chroma, documents, category, idsIssued,
                                     fails)
         IN /\ idsIssued + Len(documents) <= MaxStored
            /\ fails => category \in Categories
            /\ chroma' = r.db
            /\ idsIssued' = idsIssued + Len(r.ids)
            /\ sdOut' = [called |-> TRUE, documents |-> documents,
                         category |-> category, idsBefore |-> IdsIn(chroma),
                         sizeBefore |->
                             IF category \in Categories
                             THEN Cardinality(chroma[category]) ELSE 0,
                         ids |-> r.ids, raised |-> r.raised,
                         ret |-> r.ret]
            /\ errLog' =
                  IF r.raised /\ Len(errLog) < MaxLog
                  THEN errLog \o (IF r.logged
                                  THEN <<"VectorDBStroing.load_vectorstore">>
                                  ELSE <<"store_data">>)
                  ELSE errLog
    /\ UNCHANGED <<store, caller, retrieverVars, rankerVars, routerVars,
                   pc, pArgs, prompt, replies, pOut, stageLog, fault, stOut, concVars, csvVars,
                   qtOut, puOut, fileVars>>

(* ----------------------- ImageHandling, PdfUploading ------------------- *)
\* a file name is the sequence of its parts between dots
FileNames == {<<"doc1", "pdf">>, <<"doc2", "pdf">>}
\* name.split(".")[0]
SplitDot0(name) == <<name[1]>>

\* ImageHandling.run(image_paths, pagenumber, filename, user_id,
\* image_names, from_pdf = True): the descriptions are gathered, the image
\* number bad (0: none) fails and process_image_pdf puts (None, None, None)
\* in its place, which is no Exception and stays in the results; a Document
\* is then constructed for every result, and its construction raises for a
\* page_content that is not a string
ImageHandlingRunPdf(image_names, pagenumber, filename, user_id, bad) ==
    LET results == [i \in 1..Len(image_names) |->
                       IF i = bad THEN [kind |-> "(None, None, None)"]
                       ELSE [kind |-> "description",
                             image |-> image_names[i]]]
    IN IF \E i \in 1..Len(results) : results[i].kind # "description"
       THEN [raised |-> TRUE, documents |-> <<>>]
       ELSE [raised |-> FALSE,
             documents |->
                 [i \in 1..Len(results) |->
                     [metadata |-> [source |-> filename,
                                    Page |-> pagenumber + 1,
                                    Image |-> image_names[i],
                                    userid |-> user_id, summary |-> "no"],
                      page_content |-> results[i]]]]

\* values in the tuple ImageHandling.run returns, and names the loop of
\* extract_images_text unpacks it into
ImageRunReturns == 3
ExtractUnpacks == 2

\* one iteration of the loop over the pages of extract_images_text: page is
\* the page number counted from 1, images the number of images on it; the
\* Documents ImageHandling.run has constructed are noted in image_documents
ExtractPage(st, page, images, name, user_id, bad, failSummary) ==
    LET page_info == [metadata |-> [source |-> name \o <<"pdf">>,
                                    Page |-> page, Image |-> "No",
                                    userid |-> user_id, summary |-> "no"],
                      page_content |-> [kind |-> "text", page |-> page]]
        image_names == [i \in 1..images |->
                           [file |-> name, page |-> page, image |-> i]]
        img == ImageHandlingRunPdf(image_names, page, name, user_id, bad)
        withPage == Append(st.combined_text, page_info)
        made == st.image_documents \o img.documents
    IN IF img.raised
       THEN [st EXCEPT !.combined_text = withPage, !.raised = TRUE,
                       !.logged = <<"PdfUploading.extract_images_text">>]
       ELSE IF ImageRunReturns # ExtractUnpacks
       \* the assignment of the returned tuple raises a ValueError
       THEN [st EXCEPT !.combined_text = withPage, !.raised = TRUE,
                       !.image_documents = made,
                       !.logged = <<"PdfUploading.extract_images_text">>]
       ELSE IF failSummary = page
       THEN [st EXCEPT !.combined_text = withPage \o img.documents,
                       !.image_documents = made,
                       !.raised = TRUE,
                       !.steps = Append(@, "page summary"),
                       !.logged = <<"PdfUploading.summary",
                                    "PdfUploading.extract_images_text">>]
       ELSE [st EXCEPT !.combined_text = withPage \o img.documents,
                       !.image_documents = made,
                       !.steps = Append(@, "page summary"),
                       !.total_summary = Append(@, page)]

RECURSIVE ExtractLoop(_, _, _, _, _, _, _)
ExtractLoop(st, pdf, page, name, user_id, badAt, failSummary) ==
    IF page > Len(pdf) \/ st.raised THEN st
    ELSE ExtractLoop(
           ExtractPage(st, page, pdf[page], name, user_id,
                       IF badAt = page THEN 1 ELSE 0, failSummary),
           pdf, page + 1, name, user_id, badAt, failSummary)

\* PdfUploading.extract_images_text(filepath, name, user_id) on a PDF given
\* as the numbers of images on its pages; the description of the first
\* image of page badAt fails, and so does the summary call number
\* failSummary (0: none; Len(pdf) + 1 is the rollup)
ExtractImagesText(pdf, name, user_id, badAt, failSummary) ==
    LET stem == SplitDot0(name)
        st == ExtractLoop([combined_text |-> <<>>, total_summary |-> <<>>,
                           image_documents |-> <<>>,
                           raised |-> FALSE, logged |-> <<>>,
                           steps |-> <<"extraction">>],
                          pdf, 1, stem, user_id, badAt, failSummary)
        refined_summary == [kind |-> "summary", of |-> st.total_summary]
        \* constructed after the rollup, and not added to combined_text
        page_info == [metadata |-> [source |-> stem, Page |-> None,
                                    Image |-> "no", userid |-> user_id,
                                    summary |-> "yes"],
                      page_content |-> refined_summary]
    IN IF st.raised
       THEN [raised |-> TRUE, logged |-> st.logged, steps |-> st.steps,
             image_documents |-> st.image_documents,
             combined_text |-> st.combined_text, refined_summary |-> None]
       ELSE IF failSummary = Len(pdf) + 1
       THEN [raised |-> TRUE,
             logged |-> <<"PdfUploading.summary",
                          "PdfUploading.extract_images_text">>,
             steps |-> Append(st.steps, "rollup summary"),
             image_documents |-> st.image_documents,
             combined_text |-> st.combined_text, refined_summary |-> None]
       ELSE [raised |-> FALSE, logged |-> <<>>,
             steps |-> Append(st.steps, "rollup summary"),
             image_documents |-> st.image_documents,
             combined_text |-> st.combined_text,
             refined_summary |-> Some(page_info.page_content)]

\* PdfUploading.text_splitter on documents shorter than chunk_size: one
\* chunk per document, with the document's metadata
TextSplitter(combined_text) ==
    [i \in 1..Len(combined_text) |->
        [metadata |-> combined_text[i].metadata,
         page_content |-> [chunk_of |-> combined_text[i].page_content]]]

\* what the model may answer to the category prompt: its reply is a string
\* that is returned as it is
CategoryAnswers == {"Education", "Others", "Science"}
\* PdfUploading.category(refined_summary)
Category(refined_summary, answer, fails) ==
    IF fails
    THEN [raised |-> TRUE, logged |-> <<"PdfUploading.category">>,
          ret |-> "nothing"]
    ELSE [raised |-> FALSE, logged |-> <<>>, ret |-> answer]

\* positional arguments after self: in the call of extract_images_text by
\* run, and in its definition
ExtractArgsPassed == 4
ExtractParams == 3

\* PdfUploading.run(downloadUrl, name, user_id)
PdfUploadingRun(pdf, name, user_id, downloadFails, badAt, failSummary, answer, categoryFails) ==
    IF downloadFails
    THEN [raised |-> TRUE, fault |-> "download",
          logged |-> <<"PdfUploading.run">>, steps |-> <<"download">>,
          ret |-> None]
    ELSE IF ExtractArgsPassed # ExtractParams
    THEN [raised |-> TRUE, fault |-> "TypeError", logged |-> <<>>,
          steps |-> <<"download">>, ret |-> None]
    ELSE LET e == ExtractImagesText(pdf, name, user_id, badAt, failSummary)
             splits == TextSplitter(e.combined_text)
             c == Category(e.refined_summary, answer, categoryFails)
         IN IF e.raised
            THEN [raised |-> TRUE, fault |-> "extraction",
                  logged |-> e.logged, steps |-> <<"download">> \o e.steps,
                  ret |-> None]
            ELSE IF c.raised
            THEN [raised |-> TRUE, fault |-> "category",
                  logged |-> c.logged,
                  steps |-> <<"download">> \o e.steps
                               \o <<"chunking", "categorization">>,
                  ret |-> None]
            ELSE [raised |-> FALSE, fault |-> "none", logged |-> <<>>,
                  steps |-> <<"download">> \o e.steps
                               \o <<"chunking", "categorization">>,
                  ret |-> Some([splits |-> splits,
                                refined_summary |-> e.refined_summary.val,
                                category |-> c.ret])]

\* PDFs: the numbers of images on at most MaxPages pages
PdfShapes == UNION {[1..n -> 0..MaxImages] : n \in 1..MaxPages}
\* the entries a call adds to the error log, which is kept short
Logged(entries) ==
    IF Len(errLog) < MaxLog THEN Take(errLog \o entries, MaxLog) ELSE errLog

\* a direct call of extract_images_text on a fresh PdfUploading
ExtractImagesTextCall ==
    /\ Len(errLog) <= MaxLog
    /\ \E pdf \in PdfShapes :
        \E badAt \in {0} \cup {p \in 1..Len(pdf) : pdf[p] > 0},
           failSummary \in 0..(Len(pdf) + 1) :
         LET r == ExtractImagesText(pdf, <<"doc1", "pdf">>, "u1", badAt,
                                    failSummary)
         IN /\ puOut' = [called |-> TRUE, method |-> "extract_images_text",
                         pdf |-> pdf, failed |-> badAt + failSummary > 0,
                         raised |-> r.raised, steps |-> r.steps,
                         combined_text |-> r.combined_text,
                         image_documents |-> r.image_documents,
                         ret |-> r.refined_summary]
            /\ errLog' = Logged(r.logged)
    /\ UNCHANGED <<store, caller, retrieverVars, rankerVars, routerVars,
                   pc, pArgs, prompt, replies, pOut, stageLog, fault, stOut, concVars, csvVars,
                   qtOut, storeVars, fileVars>>

\* a direct call of run, with from_pdf set, on a fresh ImageHandling, for
\* the images of the first page of a file; process_image_pdf writes a
\* failure to the application log, and nothing is written to the error log
ImageHandlingRunCall ==
    /\ \E images \in 0..MaxImages :
        \E bad \in 0..images :
         LET image_names == [i \in 1..images |->
                                [file |-> <<"doc1">>, page |-> 1,
                                 image |-> i]]
             r == ImageHandlingRunPdf(image_names, 1, <<"doc1">>, "u1", bad)
         IN puOut' = [called |-> TRUE, method |-> "ImageHandling.run",
                      image_names |-> image_names, bad |-> bad,
                      failed |-> bad > 0, raised |-> r.raised,
                      documents |-> r.documents]
    /\ UNCHANGED <<store, caller, retrieverVars, rankerVars, routerVars,
                   pipelineVars, stOut, qtOut, storeVars, fileVars,
                   concVars, csvVars>>

\* a direct call of category on a fresh PdfUploading
CategoryCall ==
    /\ Len(errLog) <= MaxLog
    /\ \E answer \in CategoryAnswers, fails \in BOOLEAN :
         LET r == Category([kind |-> "summary", of |-> <<1>>], answer, fails)
         IN /\ puOut' = [called |-> TRUE, method |-> "category",
                         failed |-> fails, raised |-> r.raised,
                         ret |-> r.ret]
            /\ errLog' = Logged(r.logged)
    /\ UNCHANGED <<store, caller, retrieverVars, rankerVars, routerVars,
                   pc, pArgs, prompt, replies, pOut, stageLog, fault, stOut, concVars, csvVars,
                   qtOut, storeVars, fileVars>>

\* a direct call of run on a fresh PdfUploading
PdfUploadingRunCall ==
    /\ Len(errLog) <= MaxLog
    /\ \E pdf \in PdfShapes, downloadFails \in BOOLEAN,
          answer \in CategoryAnswers :
         LET r == PdfUploadingRun(pdf, <<"doc1", "pdf">>, "u1",
                                  downloadFails, 0, 0, answer, FALSE)
         IN /\ puOut' = [called |-> TRUE, method |-> "run", pdf |-> pdf,
                         failed |-> downloadFails, raised |-> r.raised,
                         fault |-> r.fault, steps |-> r.steps,
                         ret |-> r.ret]
            /\ errLog' = Logged(r.logged)
    /\ UNCHANGED <<store, caller, retrieverVars, rankerVars, routerVars,
                   pc, pArgs, prompt, replies, pOut, stageLog, fault, stOut, concVars, csvVars,
                   qtOut, storeVars, fileVars>>

(* ------------- the endpoints that ingest and retrieve files ------------ *)
\* mutant: the file map is replaced by a map that holds the new entry only
MapPut_Reset(m, k, v) == [x \in {k} |-> v]

\* m[k] = v on a dict
MapPut(m, k, v) == [x \in DOMAIN m \cup {k} |-> IF x = k THEN v ELSE m[x]]

ImageUrls == {"url1", "url2"}
\* image_filename = f"{uuid.uuid3(uuid.NAMESPACE_URL, downloadUrl)}.png"
ImageFilename(url) ==
    IF url = "url1" THEN <<"7f3a", "png">> ELSE <<"b21c", "png">>
\* f"Upload the image: {image_filename}"
UploadText(image_filename) ==
    IF image_filename[1] = "7f3a" THEN "Upload the image: 7f3a.png"
    ELSE "Upload the image: b21c.png"
\* the text of the description of an image
DescriptionOf(image_filename) ==
    IF image_filename[1] = "7f3a" THEN "description of 7f3a.png"
    ELSE "description of b21c.png"
\* a file name as one string
NameText(name) ==
    CASE name = <<"doc1", "pdf">> -> "doc1.pdf"
      [] name = <<"doc2", "pdf">> -> "doc2.pdf"
      [] name = <<"7f3a", "png">> -> "7f3a.png"
      [] name = <<"b21c", "png">> -> "b21c.png"

Exchange(user, assistant) ==
    <<[role |-> "user", content |-> user],
      [role |-> "assistant", content |-> assistant]>>
CanExchange == Len(chat_history) < 2 * MaxExchanges

\* the outcome of a request that raised
Raised(endpoint, file, fault_) ==
    [called |-> TRUE, endpoint |-> endpoint, file |-> file, raised |-> TRUE,
     fault |-> fault_, category |-> None]
\* the outcome of a request that returned
Returned(endpoint, file, category) ==
    [called |-> TRUE, endpoint |-> endpoint, file |-> file,
     raised |-> FALSE, fault |-> "none", category |-> category]

\* POST /image_description: the image is fetched and described, or that
\* fails, or the file map cannot be written
ImageDescriptionEndpoint ==
    /\ CanExchange
    /\ \E url \in ImageUrls, fails \in {"none", "image", "write"} :
         LET image_filename == ImageFilename(url)
             image_description == DescriptionOf(image_filename)
             said == UploadText(image_filename)
         IN CASE fails = "image" ->
                   /\ epOut' = Raised("image_description", image_filename,
                                      "image")
                   /\ errLog' = <<"ImageHandling.describe_image",
                                  "image_description">>
                   /\ UNCHANGED <<file_map, disk_file_map, reported,
                                  history, chat_history>>
              [] fails = "write" ->
                   /\ file_map' = MapPut(file_map, image_filename, "Images")
                   /\ epOut' = Raised("image_description", image_filename,
                                      "write")
                   /\ errLog' = <<"Dependencies.write_file_map",
                                  "image_description">>
                   /\ UNCHANGED <<disk_file_map, reported, history,
                                  chat_history>>
              [] OTHER ->
                   /\ file_map' = MapPut(file_map, image_filename, "Images")
                   /\ disk_file_map' = file_map'
                   /\ history' = history \o
                          <<HumanMessage(said), image_description>>
                   /\ chat_history' = chat_history \o
                          Exchange(said, image_description)
                   /\ reported' = reported \cup
                          {[file |-> image_filename, category |-> "Images"]}
                   /\ epOut' = Returned("image_description", image_filename,
                                        Some("Images"))
                   /\ errLog' = <<>>
    /\ UNCHANGED <<store, caller, retrieverVars, rankerVars, krOut,
                   pc, pArgs, prompt, replies, pOut, stageLog, fault, stOut, concVars, csvVars,
                   qtOut, storeVars, puOut, disk_chat_history>>

\* POST /UploadingFile
UploadingFileEndpoint ==
    /\ CanExchange
    /\ \E file \in FileNames, downloadFails \in BOOLEAN,
          answer \in CategoryAnswers :
         LET name == SplitDot0(file)
             r == PdfUploadingRun(<<1>>, name, "u1", downloadFails, 0, 0,
                                  answer, FALSE)
         IN IF r.raised
            THEN /\ epOut' = Raised("UploadingFile", file, r.fault)
                 /\ errLog' = r.logged
                 /\ UNCHANGED <<file_map, disk_file_map, reported, history,
                                chat_history, disk_chat_history>>
            ELSE /\ history' = history \o
                        <<HumanMessage(NameText(file)), "summary">>
                 /\ chat_history' = chat_history \o
                        Exchange(NameText(file), "summary")
                 /\ disk_chat_history' = chat_history'
                 /\ file_map' = MapPut(file_map, name, r.ret.val.category)
                 /\ disk_file_map' = file_map'
                 /\ reported' = reported \cup
                        {[file |-> file, category |-> r.ret.val.category]}
                 /\ epOut' = Returned("UploadingFile", file,
                                      Some(r.ret.val.category))
                 /\ errLog' = <<>>
    /\ UNCHANGED <<store, caller, retrieverVars, rankerVars, krOut,
                   pc, pArgs, prompt, replies, pOut, stageLog, fault, stOut, concVars, csvVars,
                   qtOut, storeVars, puOut>>

\* Retrieval().run(query, category, name, userid) as one call; the first
\* external call of failStage raises
RetrievalRun(query, category, name, userid, failStage) ==
    IF category \notin Categories
    THEN [raised |-> TRUE, fault |-> "KeyError", logged |-> <<>>,
          queried |-> None, ret |-> None]
    ELSE LET r == RetrievalComponentRun(
                      NewRetrievalComponent(DefaultRetrievalTopK),
                      store[category], query, name, userid, None,
                      IF failStage = "retriever" THEN 1 ELSE 0)
             k == ReRankerComponentRun(
                      NewReRankerComponent(DefaultRerankTopK),
                      r.ret.val.question_context_pairs, None,
                      IF failStage = "ranker" THEN 1 ELSE 0)
         IN IF r.raised
            THEN [raised |-> TRUE, fault |-> "gateway",
                  logged |-> <<"RetrievalComponent.run", "Retrieval.run">>,
                  queried |-> Some(category), ret |-> None]
            ELSE IF k.raised
            THEN [raised |-> TRUE, fault |-> "ranker",
                  logged |-> <<"ReRankerComponent.run", "Retrieval.run">>,
                  queried |-> Some(category), ret |-> None]
            ELSE IF failStage = "generator"
            THEN [raised |-> TRUE, fault |-> "generator",
                  logged |-> <<"Retrieval.run">>,
                  queried |-> Some(category), ret |-> None]
            ELSE [raised |-> FALSE, fault |-> "none", logged |-> <<>>,
                  queried |-> Some(category),
                  ret |-> Some([answer |->
                                    Reply([query |-> query,
                                           documents |->
                                               k.ret.val.documents]),
                                ranker |-> k.ret.val,
                                question_context_pairs |->
                                    r.ret.val.question_context_pairs])]

\* the names a client may ask /retrieve about
RetrieveNames == FileNames \cup {ImageFilename(u) : u \in ImageUrls}

\* POST /retrieve
RetrieveEndpoint ==
    /\ CanExchange
    /\ \E file \in RetrieveNames,
          failStage \in {"none", "retriever", "generator"} :
         LET name == SplitDot0(file)
             query == [kind |-> "str", text |-> "qa"]
         IN IF name \notin DOMAIN file_map
            THEN /\ epOut' = Raised("retrieve", file, "KeyError")
                 /\ errLog' = <<>>
                 /\ UNCHANGED <<history, chat_history>>
            ELSE LET category == file_map[name]
                     r == RetrievalRun(query, category, NameText(file),
                                       "u1", failStage)
                 IN IF r.raised
                    THEN /\ epOut' = Raised("retrieve", file, r.fault)
                         /\ errLog' = r.logged
                         /\ UNCHANGED <<history, chat_history>>
                    ELSE /\ epOut' = Returned("retrieve", file, r.queried)
                         /\ errLog' = <<>>
                         /\ history' = history \o
                                <<HumanMessage(query.text), "answer">>
                         /\ chat_history' = chat_history \o
                                Exchange(query.text, "answer")
    /\ UNCHANGED <<store, caller, retrieverVars, rankerVars, krOut,
                   pc, pArgs, prompt, replies, pOut, stageLog, fault, stOut, concVars, csvVars,
                   qtOut, storeVars, puOut, file_map, disk_file_map,
                   disk_chat_history, reported>>

\* the files a client uploads
CsvNames == {<<"table", "csv">>}
\* f"Uploading a new file name = {csvContents.name}"
UploadCsvText(name) ==
    IF name = <<"table", "csv">> THEN "Uploading a new file name = table.csv"
    ELSE "Uploading a new file name = old.csv"
\* the summary the agent gives of the file
SummaryOf(name) ==
    IF name = <<"table", "csv">> THEN "summary of table.csv"
    ELSE "summary of old.csv"
\* f"{completion.query} use {completion.name} for reference"
QueryCsvText(name) ==
    IF name = <<"table", "csv">> THEN "qa use table.csv for reference"
    ELSE "qa use old.csv for reference"
\* the outcome of a /queryCsv request that the agent answered
Answered(endpoint, file, agent) ==
    [called |-> TRUE, endpoint |-> endpoint, file |-> file,
     raised |-> FALSE, fault |-> "none", category |-> None,
     agent |-> agent]

\* POST /csvHandling: the file is fetched and written to the folder, an
\* agent over the files of the folder is built and bound to a local name
\* of the handler, and it summarises the file; the download or the
\* summary may fail
CsvHandlingEndpoint ==
    /\ CanExchange
    /\ \E file \in CsvNames, fails \in {"none", "download", "summary"} :
         LET local_agent == CsvAgent(uploaded_csvs \cup {file})
         IN CASE fails = "download" ->
                   /\ epOut' = Raised("csvHandling", file, "csv")
                   /\ errLog' = <<"CSVHandling.read_store_csv",
                                  "csv_handling">>
                   /\ UNCHANGED <<history, chat_history, uploaded_csvs>>
              [] fails = "summary" ->
                   /\ uploaded_csvs' = uploaded_csvs \cup {file}
                   /\ epOut' = Raised("csvHandling", file, "summary")
                   /\ errLog' = <<"CSVHandling.csv_agent", "csv_handling">>
                   /\ UNCHANGED <<history, chat_history>>
              [] OTHER ->
                   /\ uploaded_csvs' = uploaded_csvs \cup {file}
                   /\ file \in local_agent.val.files
                   /\ epOut' = Returned("csvHandling", file, None)
                   /\ errLog' = <<>>
                   /\ history' = history \o
                          <<HumanMessage(UploadCsvText(file)),
                            SummaryOf(file)>>
                   /\ chat_history' = chat_history \o
                          Exchange(UploadCsvText(file), SummaryOf(file))
    /\ UNCHANGED <<store, caller, retrieverVars, rankerVars, krOut,
                   pc, pArgs, prompt, replies, pOut, stageLog, fault, stOut,
                   concVars, csv_agent, qtOut, storeVars, puOut, file_map,
                   disk_file_map, disk_chat_history, reported>>

\* POST /queryCsv: the agent of the module answers the query; without an
\* agent the call on None raises inside query_agent
QueryCsvEndpoint ==
    /\ CanExchange
    /\ \E file \in CsvNames, fails \in BOOLEAN :
         IF csv_agent = None \/ fails
         THEN /\ epOut' = Raised("queryCsv", file,
                                 IF csv_agent = None THEN "no agent"
                                 ELSE "csv")
              /\ errLog' = <<"CSVHandling.query_agent", "query_csv">>
              /\ UNCHANGED <<history, chat_history>>
         ELSE /\ epOut' = Answered("queryCsv", file, csv_agent)
              /\ errLog' = <<>>
              /\ history' = history \o
                     <<HumanMessage(QueryCsvText(file)),
                       "csv_agent_response">>
              /\ chat_history' = chat_history \o
                     Exchange(QueryCsvText(file), "csv_agent_response")
    /\ UNCHANGED <<store, caller, retrieverVars, rankerVars, krOut,
                   pc, pArgs, prompt, replies, pOut, stageLog, fault, stOut,
                   concVars, csvVars, qtOut, storeVars, puOut, file_map,
                   disk_file_map, disk_chat_history, reported>>

\* GET /updateHistory
UpdateHistory ==
    /\ disk_chat_history # chat_history
    /\ disk_chat_history' = chat_history
    /\ epOut' = Returned("updateHistory", <<>>, None)
    /\ errLog' = <<>>
    /\ UNCHANGED <<store, caller, retrieverVars, rankerVars, routerVars,
                   pc, pArgs, prompt, replies, pOut, stageLog, fault, stOut, concVars, csvVars,
                   qtOut, storeVars, puOut, file_map, disk_file_map,
                   reported>>

(* ---------- Retrieval.run calls on the workers of the server ----------- *)
\* mutant: every call uses the instance of the first worker
NewInstance_Shared(w) == 1

\* RetrievalComponent(...) and ReRankerComponent() in Retrieval.run: the
\* call on worker w constructs objects of its own; w identifies them for as
\* long as the call runs
NewInstance(w) == w

\* a worker whose Retrieval.run call has raised: nothing is returned
RaisedRun == [IdleRun EXCEPT !.pc = "raised"]
InFlight(run) == run.pc \in {"retriever", "ranker", "generator"}
\* the instances a call in flight refers to are kept, the others collected
Collect(heap, rs) ==
    LET live == {v \in Workers : InFlight(rs[v])}
    IN [rc |-> [id \in DOMAIN heap.rc \cap {rs[v].retriever : v \in live}
                  |-> heap.rc[id]],
        rr |-> [id \in DOMAIN heap.rr \cap {rs[v].ranker : v \in live}
                  |-> heap.rr[id]]]
\* worker w moves on to run; the calls in flight on the other workers have
\* then run at the same time as another call
Moved(w, run) ==
    [v \in Workers |->
        IF v = w THEN run
        ELSE IF InFlight(runs[v]) THEN [runs[v] EXCEPT !.overlapped = TRUE]
        ELSE runs[v]]

\* the requests of the clients: a query or two, for one of two files
WorkerQueries ==
    {[kind |-> "str", text |-> "qa"],
     [kind |-> "list", items |-> <<"qb", "qa">>]}
WorkerCallers == {[name |-> Names[i], userid |-> Userids[i]] : i \in 1..2}

\* /retrieve on a free worker: Retrieval().run(query, category, name, userid)
\* looks up the collection and constructs its two components
WorkerRunStart ==
    /\ \E w \in Workers :
         /\ ~InFlight(runs[w])
         /\ \E query \in WorkerQueries, who \in WorkerCallers :
              LET id == NewInstance(w)
                  run == [IdleRun EXCEPT
                            !.pc = "retriever", !.query = query,
                            !.category = "Education", !.name = who.name,
                            !.userid = who.userid, !.retriever = id,
                            !.ranker = id, !.i = 1,
                            !.overlapped =
                                \E v \in Workers \ {w} : InFlight(runs[v])]
                  heap == [rc |-> [x \in DOMAIN instances.rc \cup {id} |->
                                     IF x = id
                                     THEN NewRetrievalComponent(
                                              DefaultRetrievalTopK)
                                     ELSE instances.rc[x]],
                           rr |-> [x \in DOMAIN instances.rr \cup {id} |->
                                     IF x = id
                                     THEN NewReRankerComponent(
                                              DefaultRerankTopK)
                                     ELSE instances.rr[x]]]
              IN /\ runs' = Moved(w, run)
                 /\ instances' = Collect(heap, runs')
    /\ UNCHANGED <<store, caller, retrieverVars, rankerVars, routerVars,
                   pipelineVars, stOut, qtOut, storeVars, puOut, fileVars,
                   handlers, csvVars>>

\* one iteration of the retriever's loop over the queries, on a worker; the
\* gateway query may raise, and the call then raises
WorkerRetrieveStep ==
    /\ \E w \in Workers, ok \in BOOLEAN :
         LET run == runs[w]
             queries == NormalizeQueries(run.query)
         IN /\ run.pc = "retriever"
            /\ run.i <= Len(queries)
            /\ IF ok
               THEN /\ runs' = Moved(w, [run EXCEPT !.i = @ + 1])
                    /\ instances' =
                          [instances EXCEPT !.rc[run.retriever] =
                              RetrieveOne(@, store[run.category],
                                          queries[run.i], run.name,
                                          run.userid)]
               ELSE /\ runs' = Moved(w, RaisedRun)
                    /\ instances' = Collect(instances, runs')
    /\ UNCHANGED <<store, caller, retrieverVars, rankerVars, routerVars,
                   pipelineVars, stOut, qtOut, storeVars, puOut, fileVars,
                   handlers, csvVars>>

\* the retriever returns the lists of its instance, and the pipeline hands
\* the question_context_pairs to the ranker
WorkerRetrieverReturns ==
    /\ \E w \in Workers :
         LET run == runs[w]
         IN /\ run.pc = "retriever"
            /\ run.i > Len(NormalizeQueries(run.query))
            /\ runs' = Moved(w, [run EXCEPT
                   !.pc = "ranker", !.i = 1,
                   !.pairs =
                       instances.rc[run.retriever].question_context_pairs])
    /\ UNCHANGED <<store, caller, retrieverVars, rankerVars, routerVars,
                   pipelineVars, stOut, qtOut, storeVars, puOut, fileVars,
                   instances, handlers, csvVars>>

\* one iteration of the ranker's loop over the pairs, on a worker
WorkerRerankStep ==
    /\ \E w \in Workers, ok \in BOOLEAN :
         LET run == runs[w]
         IN /\ run.pc = "ranker"
            /\ run.i <= Len(run.pairs)
            /\ IF ok
               THEN /\ runs' = Moved(w, [run EXCEPT !.i = @ + 1])
                    /\ instances' =
                          [instances EXCEPT !.rr[run.ranker] =
                              RerankOne(@, run.pairs[run.i])]
               ELSE /\ runs' = Moved(w, RaisedRun)
                    /\ instances' = Collect(instances, runs')
    /\ UNCHANGED <<store, caller, retrieverVars, rankerVars, routerVars,
                   pipelineVars, stOut, qtOut, storeVars, puOut, fileVars,
                   handlers, csvVars>>

\* the ranker returns the list of its instance
WorkerRankerReturns ==
    /\ \E w \in Workers :
         LET run == runs[w]
         IN /\ run.pc = "ranker"
            /\ run.i > Len(run.pairs)
            /\ runs' = Moved(w, [run EXCEPT
                   !.pc = "generator",
                   !.documents = instances.rr[run.ranker].documents])
    /\ UNCHANGED <<store, caller, retrieverVars, rankerVars, routerVars,
                   pipelineVars, stOut, qtOut, storeVars, puOut, fileVars,
                   instances, handlers, csvVars>>

\* the prompt is built and the generator answers, or raises; Retrieval.run
\* returns (replies[0], ranker output, question_context_pairs)
WorkerGenerate ==
    /\ \E w \in Workers, ok \in BOOLEAN :
         LET run == runs[w]
         IN /\ run.pc = "generator"
            /\ runs' = Moved(w,
                   IF ok
                   THEN [run EXCEPT
                           !.pc = "returned",
                           !.ret = Some(
                               [answer |->
                                    Reply([query |-> run.query,
                                           documents |-> run.documents]),
                                ranker |-> [documents |-> run.documents],
                                question_context_pairs |-> run.pairs])]
                   ELSE RaisedRun)
            /\ instances' = Collect(instances, runs')
    /\ UNCHANGED <<store, caller, retrieverVars, rankerVars, routerVars,
                   pipelineVars, stOut, qtOut, storeVars, puOut, fileVars,
                   handlers, csvVars>>

(* ------- handlers that extend the histories, on the workers ------------ *)
\* the assistant turn of the request that worker w handles for a text
AnswerOf(w, text) == <<"answer to", text, "on worker", w>>
Handling == {w \in Workers : handlers[w].pc # "idle"}

\* a handler served on the thread pool (query_csv, pdf_retrieval,
\* llm_router_completion) has got its response and is about to extend the
\* two lists; a request that raises or appends nothing leaves no trace
HandlerResponds ==
    /\ \E w \in Workers, text \in Texts :
         /\ handlers[w].pc = "idle"
         /\ Len(chat_history) + 2 * Cardinality(Handling) < 2 * MaxExchanges
         /\ handlers' = [handlers EXCEPT ![w] =
                [pc |-> "history", user |-> text,
                 assistant |-> AnswerOf(w, text)]]
    /\ UNCHANGED <<store, caller, retrieverVars, rankerVars, routerVars,
                   pipelineVars, stOut, qtOut, storeVars, puOut, fileVars,
                   runs, instances, csvVars>>

\* history.extend([HumanMessage(content = ...), response])
ExtendHistory ==
    /\ \E w \in Workers :
         /\ handlers[w].pc = "history"
         /\ history' = history \o <<HumanMessage(handlers[w].user),
                                    handlers[w].assistant>>
         /\ handlers' = [handlers EXCEPT ![w].pc = "chat_history"]
    /\ UNCHANGED <<store, caller, retrieverVars, rankerVars, chat_history,
                   krOut, pipelineVars, stOut, qtOut, storeVars, puOut,
                   fileVars, runs, instances, csvVars>>

\* chat_history.extend([{"role": "user", ...}, {"role": "assistant", ...}]),
\* after which the handler returns
ExtendChatHistory ==
    /\ \E w \in Workers :
         /\ handlers[w].pc = "chat_history"
         /\ chat_history' = chat_history \o
                Exchange(handlers[w].user, handlers[w].assistant)
         /\ handlers' = [handlers EXCEPT ![w] = IdleHandler]
    /\ UNCHANGED <<store, caller, retrieverVars, rankerVars, history,
                   krOut, pipelineVars, stOut, qtOut, storeVars, puOut,
                   fileVars, runs, instances, csvVars>>

(* --------------------------- specifications --------------------------- *)
\* calls made directly on a RetrievalComponent instance
NextRetriever == RetrieverConstruct \/ RetrieverRun
SpecRetriever == InitShared /\ [][NextRetriever]_vars

\* calls made directly on a ReRankerComponent instance
NextRanker == RankerConstruct \/ RankerRun
SpecRanker == InitShared /\ [][NextRanker]_vars

\* Retrieval.run calls, one after another
NextPipeline ==
    \/ RetrievalRunStart
    \/ RetrieverStage
    \/ RankerStage
    \/ PromptStage
    \/ GeneratorStage
SpecPipeline == InitShared /\ [][NextPipeline]_vars

\* /knowledgeRouter requests, one after another
NextRouter == KnowledgeRouterEndpoint
SpecRouter == InitEmpty /\ [][NextRouter]_vars

\* calls of the stages, with or without a failing external call
NextStages == StageCall
SpecStages == InitEmpty /\ [][NextStages]_vars

\* calls made directly on a PdfUploading
NextPdf ==
    \/ ExtractImagesTextCall
    \/ ImageHandlingRunCall
    \/ CategoryCall
    \/ PdfUploadingRunCall
SpecPdf == InitEmpty /\ [][NextPdf]_vars

\* requests to the endpoints that ingest and retrieve files
NextFiles ==
    \/ ImageDescriptionEndpoint
    \/ UploadingFileEndpoint
    \/ RetrieveEndpoint
SpecFiles == InitFiles /\ [][NextFiles]_vars

\* requests to endpoints that extend the chat history, and /updateHistory
\* (/image_description extends it too; its requests are in SpecFiles)
NextHistory ==
    \/ CsvHandlingEndpoint
    \/ QueryCsvEndpoint
    \/ UploadingFileEndpoint
    \/ RetrieveEndpoint
    \/ KnowledgeRouterEndpoint
    \/ UpdateHistory
SpecHistory == InitCsv /\ [][NextHistory]_vars

\* /StoreData requests, one after another
NextStore == StoreDataEndpoint
SpecStore == InitEmpty /\ [][NextStore]_vars

\* /queryTransformationRouter requests, one after another
NextTransform == QueryTransformationEndpoint
SpecTransform == InitEmpty /\ [][NextTransform]_vars

\* the collection of Education is full, the others are empty
InitWorkers ==
    /\ store = [c \in Categories |-> IF c = "Education" THEN Docs ELSE {}]
    /\ caller = [name |-> Names[1], userid |-> Userids[1]]
    /\ file_map = <<>> /\ disk_file_map = <<>>
    /\ InitNoCsv
    /\ InitRest

\* /retrieve requests served at the same time, each on a worker
NextWorkers ==
    \/ WorkerRunStart
    \/ WorkerRetrieveStep
    \/ WorkerRetrieverReturns
    \/ WorkerRerankStep
    \/ WorkerRankerReturns
    \/ WorkerGenerate
SpecWorkers == InitWorkers /\ [][NextWorkers]_vars

\* calls made directly on the instances of the two components, on one
\* instance at a time
NextInstances ==
    \/ rrCalls = 0 /\ RetrieverConstruct
    \/ rrCalls = 0 /\ RetrieverRun
    \/ rcCalls = 0 /\ RankerConstruct
    \/ rcCalls = 0 /\ RankerRun
SpecInstances == InitShared /\ [][NextInstances]_vars

\* requests that extend the histories, served at the same time
NextHandlers == HandlerResponds \/ ExtendHistory \/ ExtendChatHistory
SpecHandlers == InitEmpty /\ [][NextHandlers]_vars

\* /csvHandling and /queryCsv requests, one after another
NextCsv == CsvHandlingEndpoint \/ QueryCsvEndpoint
SpecCsv == InitCsv /\ [][NextCsv]_vars

(* ===================== claims on the components ======================= *)
RECURSIVE Flatten(_)
Flatten(pairs) ==
    IF pairs = <<>> THEN <<>>
    ELSE pairs[1].documents \o Flatten(Tail(pairs))

PairDocs(pairs) == UNION {Range(pairs[i].documents) : i \in 1..Len(pairs)}
RankerReturned == rrOut.called /\ ~rrOut.raised
RetrieverReturned == rcOut.called /\ ~rcOut.raised

\* the bound and the membership C3 states, for the last call on rr
RerankBounded ==
    /\ Len(rrOut.ret.val.documents) <= rr.top_k * Len(rrOut.pairs)
    /\ Range(rrOut.ret.val.documents) \subseteq PairDocs(rrOut.pairs)
NonEmptySets ==
    /\ rrOut.pairs # <<>>
    /\ \A i \in 1..Len(rrOut.pairs) : rrOut.pairs[i].documents # <<>>

\* C3 as stated: every ReRankerComponent.run call on non-empty document
\* sets returns at most top_k documents per input pair, all of them taken
\* from the document sets of the pairs of that call.
C3_RerankBoundedEveryCall ==
    (RankerReturned /\ NonEmptySets) => RerankBounded

\* C3 amended: the first ReRankerComponent.run call on an instance returns,
\* for non-empty document sets, at most top_k documents per input pair, all
\* of them taken from the document sets of the pairs of that call.
C3_RerankBoundedFirstCall ==
    (RankerReturned /\ NonEmptySets /\ rrCalls = 1) => RerankBounded
C3_Witness ==
    /\ RankerReturned /\ NonEmptySets /\ rrCalls = 1
    /\ Len(rrOut.pairs) = 2
    /\ Len(rrOut.pairs[1].documents) > rr.top_k
    /\ Len(rrOut.ret.val.documents) = rr.top_k * 2

\* block i of the reranked output has Min(top_k, |documents of pair i|)
\* documents and starts after the blocks of the earlier pairs
BlockLen(pairs, k, i) == Min(k, Len(pairs[i].documents))
RECURSIVE BlockStart(_, _, _)
BlockStart(pairs, k, i) ==
    IF i = 1 THEN 0
    ELSE BlockStart(pairs, k, i - 1) + BlockLen(pairs, k, i - 1)

\* C4: on a fresh instance the documents returned by ReRankerComponent.run
\* are one block per pair, in pair order; each block holds the top_k most
\* relevant documents of its pair (all of them when there are fewer), in
\* strictly descending relevance to that pair's question; and the relevance
\* model was invoked once per pair, in order, with that pair.
C4_RerankBlocks ==
    (RankerReturned /\ rrCalls = 1) =>
        LET pairs == rrOut.pairs
            out == rrOut.ret.val.documents
            k == rr.top_k
            n == Len(pairs)
        IN /\ rrOut.issued = pairs
           /\ Len(out) = (IF n = 0 THEN 0
                          ELSE BlockStart(pairs, k, n) + BlockLen(pairs, k, n))
           /\ \A i \in 1..n :
                LET q == pairs[i].question
                    b == BlockStart(pairs, k, i)
                    blk == {out[b + p] : p \in 1..BlockLen(pairs, k, i)}
                IN /\ blk \subseteq Range(pairs[i].documents)
                   /\ \A p1, p2 \in 1..BlockLen(pairs, k, i) :
                        p1 < p2 => Rel(q, out[b + p1]) > Rel(q, out[b + p2])
                   /\ \A d \in Range(pairs[i].documents) \ blk :
                        \A e \in blk : Rel(q, d) < Rel(q, e)
C4_Witness ==
    /\ RankerReturned /\ rrCalls = 1
    /\ rrOut.top_k = None
    /\ Len(rrOut.pairs) = 2
    /\ rrOut.pairs[1].question # rrOut.pairs[2].question
    /\ Len(rrOut.pairs[1].documents) > DefaultRerankTopK
    /\ Len(rrOut.ret.val.documents) = 2 * DefaultRerankTopK

\* C5: the documents RetrievalComponent.run returns for a query all have
\* source = name or userid = userid; when top_k does not truncate they are
\* exactly the documents of the collection with a matching source or a
\* matching userid, so a document matching on one side only is returned and
\* a document matching neither is not.
C5_OrFilter ==
    RetrieverReturned =>
        \A i \in 1..Len(rcOut.ret.val.question_context_pairs) :
            LET got == Range(rcOut.ret.val.question_context_pairs[i].documents)
            IN /\ \A d \in got :
                    Source(d) = caller.name \/ Userid(d) = caller.userid
               /\ rc.top_k >= Cardinality(coll) =>
                    /\ \A d \in coll : Source(d) = caller.name => d \in got
                    /\ \A d \in coll : Userid(d) = caller.userid => d \in got
                    /\ \A d \in coll :
                         (Source(d) # caller.name
                             /\ Userid(d) # caller.userid) => d \notin got
C5_Witness ==
    /\ RetrieverReturned
    /\ Len(rcOut.ret.val.question_context_pairs) > 0
    /\ LET got == Range(rcOut.ret.val.question_context_pairs[1].documents)
       IN /\ \E d \in got :
               Source(d) = caller.name /\ Userid(d) # caller.userid
          /\ \E d \in got :
               Source(d) # caller.name /\ Userid(d) = caller.userid
          /\ \E d \in coll \ got :
               Source(d) # caller.name /\ Userid(d) # caller.userid

\* C6: RetrievalComponent.run on a fresh instance returns one pair per input
\* query, in input order (one pair for a single string), each pair holds at
\* most top_k documents, and the returned documents are the concatenation
\* of the pairs' documents.
C6_OnePairPerQuery ==
    (RetrieverReturned /\ rcCalls = 1) =>
        LET pairs == rcOut.ret.val.question_context_pairs
            k == IF rcOut.top_k = None THEN DefaultRetrievalTopK
                 ELSE rcOut.top_k.val
        IN /\ IF rcOut.queries.kind = "str"
              THEN Len(pairs) = 1 /\ pairs[1].question = rcOut.queries.text
              ELSE /\ Len(pairs) = Len(rcOut.queries.items)
                   /\ \A i \in 1..Len(pairs) :
                        pairs[i].question = rcOut.queries.items[i]
           /\ \A i \in 1..Len(pairs) : Len(pairs[i].documents) <= k
           /\ rcOut.ret.val.documents = Flatten(pairs)
C6_Witness ==
    /\ RetrieverReturned /\ rcCalls = 1
    /\ rcOut.queries.kind = "list"
    /\ Len(rcOut.queries.items) = 2
    /\ rcOut.top_k = Some(2)
    /\ Len(rcOut.ret.val.documents) = 4
    /\ Cardinality(coll) > 2

\* C7: when a gateway query of RetrievalComponent.run fails, the call logs
\* and raises, returns nothing, and the failing query is the last one
\* issued.
C7_RetrievalFailureAborts ==
    (rcOut.called /\ rcOut.failAt > 0) =>
        /\ rcOut.raised
        /\ rcOut.logged
        /\ rcOut.ret = None
        /\ rcOut.issued =
               SubSeq(NormalizeQueries(rcOut.queries), 1, rcOut.failAt)
C7_Witness ==
    /\ rcOut.called /\ rcOut.failAt = 2 /\ rcCalls = 1
    /\ Len(NormalizeQueries(rcOut.queries)) = 2
    /\ rc.documents # <<>>
    /\ rcOut.ret = None

(* ====================== claims on Retrieval.run ======================= *)
StageOrder == <<"retriever", "ranker", "prompt", "generator">>

EmptyContext ==
    /\ RetrieverReturned
    /\ \A i \in 1..Len(rcOut.ret.val.question_context_pairs) :
         rcOut.ret.val.question_context_pairs[i].documents = <<>>

\* C2: when the gateway returns no document for any query, reranking and
\* composition still run, on an empty context, and Retrieval.run returns an
\* answer: the call raises only if the relevance model or the generative
\* model fails.
C2_EmptyContextAnswers ==
    (pc # "idle" /\ EmptyContext) =>
        /\ (rrOut.called /\ rrOut.failAt = 0) =>
              ~rrOut.raised /\ rrOut.ret.val.documents = <<>>
        /\ pc = "raised" =>
              (rrOut.called /\ rrOut.failAt > 0) \/ fault = "generator"
        /\ pc = "returned" =>
              /\ stageLog = StageOrder
              /\ prompt.val.documents = <<>>
              /\ pOut # None
C2_Witness ==
    /\ pc = "returned" /\ EmptyContext
    /\ Len(rcOut.ret.val.question_context_pairs) = 2
    /\ pOut # None
    /\ prompt.val.documents = <<>>

ModelCallFailed(o) ==
    /\ o.called
    /\ \/ o.first = Fail
       \/ o.first.type = "InternalDataRequests" /\ o.coreFails

\* C10: a /knowledgeRouter request in which a model call of the router
\* fails raises, returns no decision, and leaves history and chat_history
\* as they were.
C10_RouterFailurePropagates ==
    [][ModelCallFailed(krOut') =>
          /\ krOut'.raised
          /\ krOut'.ret = None
          /\ history' = history
          /\ chat_history' = chat_history]_vars
C10_Witness ==
    /\ ModelCallFailed(krOut)
    /\ krOut.first.type = "InternalDataRequests"
    /\ krOut.raised
    /\ Len(history) > 0
    /\ Len(chat_history) = Len(history)

SelectorReturned == qtOut.called /\ qtOut.response # None

\* C11: the transformation label returned by QueryTransformationRouter.run,
\* the label the /queryTransformationRouter endpoint dispatches on, is
\* always one of Decomposition, MultiQuery, CoreMeaning, None, whatever the
\* structured-output model answers.
C11_LabelIsOffered ==
    SelectorReturned => qtOut.response.val.transformation \in OfferedLabels

StoreSucceeded == sdOut.called /\ sdOut.ret = "Success"

\* C13: a VectorDBStroing.run call that returns "Success" has assigned one
\* identifier per document, the identifiers are pairwise distinct and
\* distinct from all identifiers assigned by earlier calls, and the whole
\* batch is in the collection; every document ever stored is still there,
\* so storing the same documents twice leaves both copies.
C13_FreshIdPerDocument ==
    /\ Cardinality(UNION {chroma[c] : c \in Categories}) = idsIssued
    /\ StoreSucceeded =>
         LET ids == sdOut.ids
             docs == sdOut.documents
         IN /\ Len(ids) = Len(docs)
            /\ \A i, j \in 1..Len(ids) : i # j => ids[i] # ids[j]
            /\ Range(ids) \cap sdOut.idsBefore = {}
            /\ \A i \in 1..Len(docs) :
                 [id |-> ids[i], doc |-> docs[i]] \in chroma[sdOut.category]
            /\ Cardinality(chroma[sdOut.category])
                 = sdOut.sizeBefore + Len(docs)
C13_Witness ==
    /\ StoreSucceeded
    /\ Len(sdOut.documents) = 2
    /\ sdOut.documents[1] = sdOut.documents[2]
    /\ sdOut.idsBefore # {}
    /\ \E e1, e2, e3 \in chroma[sdOut.category] :
         /\ e1.id # e2.id /\ e2.id # e3.id /\ e1.id # e3.id
         /\ e1.doc = e2.doc /\ e2.doc = e3.doc

\* C15: every document that reaches a collection through
\* VectorDBStroing.run carries a non-empty source and a non-empty userid in
\* its metadata.
C15_StoredHaveSourceAndUserid ==
    \A c \in Categories : \A e \in chroma[c] :
        /\ "source" \in DOMAIN e.doc.metadata
        /\ "userid" \in DOMAIN e.doc.metadata
        /\ e.doc.metadata.source # ""
        /\ e.doc.metadata.userid # ""

(* ==================== claims on the PDF ingestion ===================== *)
Images(pdf) == LET S[n \in 0..Len(pdf)] == IF n = 0 THEN 0 ELSE S[n - 1] + pdf[n]
               IN S[Len(pdf)]

\* C14: the category PDF ingestion assigns to a file and persists in the
\* file map is always one of Education, Sports, Politics, Environment,
\* Others, Images, a key of the category-to-collection maps.
C14_CategoryIsKnown ==
    /\ (puOut.called /\ puOut.method = "category" /\ ~puOut.raised) =>
          puOut.ret \in Categories
    /\ \A f \in DOMAIN file_map : file_map[f] \in Categories

\* C16: for a PDF with P pages and I embedded images, when no image
\* description and no summary fails, the documents PDF ingestion produces
\* for chunking (combined_text) are one per page, one per image and one
\* rollup summary marked as a summary: P + I + 1.
C16_PagesImagesAndRollup ==
    (puOut.called /\ puOut.method = "extract_images_text" /\ ~puOut.failed)
        => LET docs == puOut.combined_text
               P == Len(puOut.pdf)
               I == Images(puOut.pdf)
               summaries == {i \in 1..Len(docs) :
                                docs[i].metadata.summary = "yes"}
           IN /\ ~puOut.raised
              /\ Len(docs) = P + I + 1
              /\ Cardinality(summaries) = 1

\* C17: when the download and every model call succeed,
\* PdfUploading.run completes without error, having run download,
\* extraction with per-page summaries, rollup summary, categorization and
\* chunking, and returns (splits, refined_summary, category).
C17_RunCompletes ==
    (puOut.called /\ puOut.method = "run" /\ ~puOut.failed) =>
        /\ ~puOut.raised
        /\ puOut.ret # None
        /\ Len(puOut.steps) = Len(puOut.pdf) + 5
        /\ puOut.steps[1] = "download"
        /\ puOut.steps[2] = "extraction"
        /\ puOut.steps[Len(puOut.pdf) + 3] = "rollup summary"
        /\ {puOut.steps[Len(puOut.pdf) + 4], puOut.steps[Len(puOut.pdf) + 5]}
              = {"categorization", "chunking"}

(* ============ claims on the chat history and the file map ============= *)
\* C18: after every exchange, that is after every endpoint call that
\* appends a user turn and an assistant turn to chat_history, the persisted
\* chat history equals the in-memory chat_history.
C18_ExchangeIsPersisted ==
    [][chat_history' # chat_history =>
          disk_chat_history' = chat_history']_vars

Ingestions == {"image_description", "UploadingFile"}
\* the key an ingestion endpoint files its file under
KeyOf(o) ==
    IF o.endpoint = "image_description" THEN o.file ELSE SplitDot0(o.file)
Ingested(o) == o.called /\ o.endpoint \in Ingestions /\ ~o.raised

\* C19: after an ingestion endpoint (/UploadingFile, /image_description)
\* completes successfully, the ingested file is mapped to its category in
\* the in-memory file map, the persisted file map equals the in-memory
\* one, and the entries of previously ingested files are unchanged.
C19_FileMapWritten ==
    [][(Ingested(epOut') /\ epOut' # epOut) =>
          /\ KeyOf(epOut') \in DOMAIN file_map'
          /\ Some(file_map'[KeyOf(epOut')]) = epOut'.category
          /\ disk_file_map' = file_map'
          /\ \A k \in DOMAIN file_map \ {KeyOf(epOut')} :
               k \in DOMAIN file_map' /\ file_map'[k] = file_map[k]]_vars
C19_Witness ==
    /\ Ingested(epOut)
    /\ epOut.file = <<"b21c", "png">>
    /\ DOMAIN file_map = {<<"doc1">>, <<"7f3a", "png">>, <<"b21c", "png">>}
    /\ file_map[<<"doc1">>] = "Education"
    /\ file_map[<<"b21c", "png">>] = "Images"
    /\ disk_file_map = file_map

\* C20: for every file whose ingestion has completed, a later /retrieve
\* called with the file name that ingestion reported resolves, through the
\* file map, the category that ingestion recorded, and queries that
\* category's collection; the lookup never fails for an ingested file.
C20_IngestedFileResolves ==
    (epOut.called /\ epOut.endpoint = "retrieve") =>
        \A r \in reported :
            r.file = epOut.file =>
                /\ epOut.fault # "KeyError"
                /\ epOut.raised \/ epOut.category = Some(r.category)

(* ============== claims on requests served at the same time ============ *)
\* C21: Retrieval.run constructs a RetrievalComponent and a
\* ReRankerComponent of its own on every call, so whatever /retrieve
\* requests run one after another or interleaved, the reranked documents
\* and the question_context_pairs a request gets are those of its own
\* queries, as if it had run alone, and hold no document retrieved for
\* another request.
C21_OwnResultsOnly ==
    \A w \in Workers :
        LET run == runs[w]
            alone == RetrievalRun(run.query, run.category, run.name,
                                  run.userid, "none").ret.val
        IN /\ run.pc \in {"ranker", "generator", "returned"} =>
                run.pairs = alone.question_context_pairs
           /\ run.pc \in {"generator", "returned"} =>
                run.documents = alone.ranker.documents
           /\ run.pc = "returned" =>
                /\ run.ret = Some(alone)
                /\ \A i \in 1..Len(run.ret.val.question_context_pairs) :
                     LET pair == run.ret.val.question_context_pairs[i]
                     IN /\ pair.question
                            = NormalizeQueries(run.query)[i]
                        /\ \A d \in Range(pair.documents) :
                             FilterMatches(d, run.name, run.userid)
                /\ Range(run.ret.val.ranker.documents) \subseteq
                     PairDocs(run.ret.val.question_context_pairs)
C21_Witness ==
    /\ runs[1].pc = "returned" /\ runs[1].overlapped
    /\ runs[2].pc = "returned" /\ runs[2].overlapped
    /\ runs[1].name # runs[2].name
    /\ Len(runs[1].pairs) = 2 /\ Len(runs[2].pairs) = 1
    /\ \E d \in Range(runs[2].ret.val.ranker.documents) :
         d \notin PairDocs(runs[1].ret.val.question_context_pairs)

(* ================= claims on the generator of the pipeline ============ *)
GeneratorCalls ==
    Cardinality({i \in 1..Len(stageLog) : stageLog[i] = "generator"})

\* C22: in one Retrieval.run call the generator is invoked once, after the
\* reranking, for any number of queries and documents, and the answer
\* returned is the first reply of that invocation; when the invocation
\* fails it is not made again, and the call raises and returns no answer.
C22_GeneratorOnce ==
    /\ GeneratorCalls <= 1
    /\ GeneratorCalls = 1 =>
         /\ stageLog[Len(stageLog)] = "generator"
         /\ \E i \in 1..Len(stageLog) : stageLog[i] = "ranker"
         /\ RankerReturned
    /\ pc = "returned" =>
         /\ GeneratorCalls = 1
         /\ Len(replies) >= 1
         /\ pOut # None
         /\ pOut.val.answer = replies[1]
    /\ (pc = "raised" /\ fault = "generator") =>
         /\ GeneratorCalls = 1
         /\ replies = <<>>
         /\ pOut = None
    /\ (pc = "raised" /\ fault # "generator") => GeneratorCalls = 0
C22_Witness ==
    /\ pc = "raised" /\ fault = "generator"
    /\ GeneratorCalls = 1
    /\ Len(rcOut.issued) = 2
    /\ Len(rrOut.ret.val.documents) = 2 * DefaultRerankTopK
    /\ pOut = None

(* ============ claims on the state the instances accumulate ============ *)
IsPrefix(s, t) == Len(s) <= Len(t) /\ SubSeq(t, 1, Len(s)) = s
RetrieverCalled == rcCalls' = rcCalls + 1
RankerCalled == rrCalls' = rrCalls + 1
\* what the retriever call just made gets for its own queries, and what the
\* ranker call just made gets for its own pairs, with the top_k in force
OwnPairsWith(k) ==
    LET queries == NormalizeQueries(rcOut'.queries)
    IN [i \in 1..Len(queries) |->
          [question |-> queries[i],
           documents |-> ChromaQuery(coll, queries[i], k,
                                     caller.name, caller.userid)]]
OwnPairs == OwnPairsWith(rc'.top_k)
RECURSIVE Reranked(_, _)
Reranked(pairs, k) ==
    IF pairs = <<>> THEN <<>>
    ELSE SimilarityRanker(pairs[1].question, pairs[1].documents, k)
             \o Reranked(Tail(pairs), k)

\* C23: the lists of a RetrievalComponent instance and of a
\* ReRankerComponent instance are never emptied or shortened by a run call;
\* the output of a call is the content of the lists before the call
\* followed by the results of the call's own queries or pairs, so the
\* output of the k-th call begins with the output of the (k-1)-th call.
C23_ListsOnlyGrow ==
    [][/\ RetrieverCalled =>
            /\ IsPrefix(rc.documents, rc'.documents)
            /\ IsPrefix(rc.question_context_pairs,
                        rc'.question_context_pairs)
            /\ ~rcOut'.raised =>
                 /\ rcOut'.ret.val.question_context_pairs
                        = rc.question_context_pairs \o OwnPairs
                 /\ rcOut'.ret.val.documents
                        = rc.documents \o Flatten(OwnPairs)
                 /\ (rcOut.called /\ ~rcOut.raised) =>
                      /\ rcOut'.ret.val.documents
                             = rcOut.ret.val.documents \o Flatten(OwnPairs)
                      /\ rcOut'.ret.val.question_context_pairs
                             = rcOut.ret.val.question_context_pairs
                                   \o OwnPairs
       /\ RankerCalled =>
            /\ IsPrefix(rr.documents, rr'.documents)
            /\ ~rrOut'.raised =>
                 /\ rrOut'.ret.val.documents
                        = rr.documents \o Reranked(rrOut'.pairs, rr'.top_k)
                 /\ (rrOut.called /\ ~rrOut.raised) =>
                      rrOut'.ret.val.documents
                          = rrOut.ret.val.documents
                                \o Reranked(rrOut'.pairs, rr'.top_k)]_vars
C23_Witness ==
    /\ rcCalls = 2 /\ RetrieverReturned
    /\ Len(NormalizeQueries(rcOut.queries)) = 1
    /\ Len(rcOut.ret.val.question_context_pairs) = 3
    /\ rcOut.ret.val.question_context_pairs[1].documents # <<>>
    /\ rcOut.ret.val.question_context_pairs[3].documents # <<>>
    /\ Len(rcOut.ret.val.documents)
         > Len(rcOut.ret.val.question_context_pairs[3].documents)

\* C30: a top_k passed to RetrievalComponent.run or ReRankerComponent.run
\* replaces the top_k of the instance for good: a call that passes none
\* uses the top_k the instance holds, which is the most recent override,
\* and the constructor default (10, 3) only when no call has passed one.
C30_OverrideIsKept ==
    [][/\ RetrieverCalled =>
            LET k == IF rcOut'.top_k # None THEN rcOut'.top_k.val
                     ELSE rc.top_k
            IN /\ rc'.top_k = k
               /\ (rcOut'.top_k = None /\ rcOut.called
                      /\ rcOut.top_k # None) => k = rcOut.top_k.val
               /\ (rcOut'.top_k = None /\ rcCalls = 0) =>
                      k = DefaultRetrievalTopK
               /\ ~rcOut'.raised =>
                    rc'.question_context_pairs
                        = rc.question_context_pairs \o OwnPairsWith(k)
       /\ RankerCalled =>
            LET k == IF rrOut'.top_k # None THEN rrOut'.top_k.val
                     ELSE rr.top_k
            IN /\ rr'.top_k = k
               /\ (rrOut'.top_k = None /\ rrOut.called
                      /\ rrOut.top_k # None) => k = rrOut.top_k.val
               /\ (rrOut'.top_k = None /\ rrCalls = 0) =>
                      k = DefaultRerankTopK
               /\ ~rrOut'.raised =>
                    rr'.documents
                        = rr.documents \o Reranked(rrOut'.pairs, k)]_vars
C30_Witness ==
    /\ rrCalls = 2 /\ RankerReturned
    /\ rrOut.top_k = None
    /\ rr.top_k = 2
    /\ Len(rrOut.pairs) = 1
    /\ Len(rrOut.pairs[1].documents) > DefaultRerankTopK
    /\ LET out == rrOut.ret.val.documents
       IN /\ Len(out) >= 2
          /\ SubSeq(out, Len(out) - 1, Len(out))
               = SimilarityRanker(rrOut.pairs[1].question,
                                  rrOut.pairs[1].documents, 2)

(* ================= claims on an unknown category ====================== *)
\* C24: a call with a category that is no key of the category map is
\* handled like every other failure: Retrieval.run and VectorDBStroing.run
\* write the error to the error log and raise it, before any gateway
\* query, rerank call, model call or document write.
C24_MissingCategoryLogged ==
    /\ (pc = "raised" /\ fault = "KeyError") =>
          /\ pArgs.val.category \notin Categories
          /\ stageLog = <<>>
          /\ ~rcOut.called /\ ~rrOut.called
          /\ \E i \in 1..Len(errLog) : errLog[i] = "Retrieval.run"
    /\ (sdOut.called /\ sdOut.category \notin Categories) =>
          /\ sdOut.raised
          /\ sdOut.ids = <<>>
          /\ \E i \in 1..Len(errLog) :
               errLog[i] \in {"VectorDBStroing.run",
                              "VectorDBStroing.load_vectorstore"}

(* ============ claims on the images of an ingested PDF ================= *)
\* C25: ImageHandling.run with from_pdf set leaves out an image whose
\* description failed: it returns one document per image that was
\* described and none for the failed one, and the Image metadata of each
\* document names the image file its content describes.
C25_FailedImageIsDropped ==
    (puOut.called /\ puOut.method = "ImageHandling.run") =>
        LET described == {i \in 1..Len(puOut.image_names) : i # puOut.bad}
        IN /\ ~puOut.raised
           /\ Len(puOut.documents) = Cardinality(described)
           /\ \A i \in 1..Len(puOut.documents) :
                LET doc == puOut.documents[i]
                IN /\ doc.page_content.kind = "description"
                   /\ doc.page_content.image = doc.metadata.Image
                   /\ doc.metadata.Image
                        \in {puOut.image_names[j] : j \in described}

\* C29: for every page of an ingested PDF, the documents created for the
\* images of the page carry the page number and the source that the
\* document of the page's text carries.
C29_ImagesCarryPageAndSource ==
    (puOut.called /\ puOut.method = "extract_images_text") =>
        \A i \in 1..Len(puOut.image_documents) :
            LET d == puOut.image_documents[i]
            IN \E j \in 1..Len(puOut.combined_text) :
                 LET t == puOut.combined_text[j]
                 IN /\ t.page_content.kind = "text"
                    /\ t.page_content.page = d.metadata.Image.page
                    /\ t.metadata.Page = d.metadata.Page
                    /\ t.metadata.source = d.metadata.source

(* ============== claims on the turns of /knowledgeRouter =============== *)
\* C26: a /knowledgeRouter request whose decision is a
\* ConversationalResponse appends one user turn, the text of the request,
\* and one assistant turn, the response, to history and to chat_history;
\* a request whose decision is an InternalDataRequests leaves history and
\* chat_history as they were; neither changes the file map.
C26_TurnsOfTheRouter ==
    [][(krOut'.called /\ ~krOut'.raised) =>
          LET decision == krOut'.ret.val.response
          IN /\ decision.type = "ConversationalResponse" =>
                  /\ history' = history \o
                         <<[message |-> "human", content |-> krOut'.text],
                           decision.response>>
                  /\ chat_history' = chat_history \o
                         <<[role |-> "user", content |-> krOut'.text],
                           [role |-> "assistant",
                            content |-> decision.response]>>
             /\ decision.type = "InternalDataRequests" =>
                  /\ history' = history
                  /\ chat_history' = chat_history
             /\ file_map' = file_map
             /\ disk_file_map' = disk_file_map]_vars
C26_Witness ==
    /\ krOut.called /\ ~krOut.raised
    /\ krOut.ret.val.response.type = "ConversationalResponse"
    /\ Len(history) = 4 /\ Len(chat_history) = 4
    /\ chat_history[3] = [role |-> "user", content |-> krOut.text]
    /\ chat_history[4].content = krOut.ret.val.response.response
    /\ chat_history[1].content # chat_history[3].content

(* ========= claims on the histories under concurrent requests ========== *)
\* C27: in every reachable state, however the requests served at the same
\* time interleave, history and chat_history have the same length and hold
\* the same exchanges in the same order, and each user turn of
\* chat_history is followed at once by the assistant turn of its request.
C27_HistoriesAgree ==
    /\ Len(history) = Len(chat_history)
    /\ \A i \in 1..Len(chat_history) :
         IF i % 2 = 1
         THEN /\ chat_history[i].role = "user"
              /\ history[i] = HumanMessage(chat_history[i].content)
              /\ i < Len(chat_history)
              /\ chat_history[i + 1].role = "assistant"
              /\ chat_history[i + 1].content
                   \in {AnswerOf(w, chat_history[i].content) : w \in Workers}
         ELSE history[i] = chat_history[i].content

(* ===================== claims on the CSV agent ======================== *)
\* the files whose /csvHandling request has completed: each has left its
\* exchange in chat_history
CsvUploaded ==
    {f \in CsvNames :
        \E i \in 1..Len(chat_history) :
            chat_history[i] = [role |-> "user", content |-> UploadCsvText(f)]}

\* C28: once /csvHandling has completed for a CSV file F, every later
\* /queryCsv request is answered by an agent built over a set of files
\* that holds F, and never finds the agent missing.
C28_AgentKnowsUploads ==
    (epOut.called /\ epOut.endpoint = "queryCsv") =>
        \A f \in CsvUploaded :
            /\ epOut.fault # "no agent"
            /\ ~epOut.raised =>
                 /\ epOut.agent # None
                 /\ f \in epOut.agent.val.files

====
